---------------------------- MODULE Spec2Model ----------------------------
(***************************************************************************)
(* State-machine model of two SIMH storage controllers of the MicroNOVA:   *)
(*   DHP  6095 hard-disk controller   (src/NOVA/micronova_dhp.c)           *)
(*   DKT  6038 floppy controller      (src/NOVA/micronova_dkt.c)           *)
(*                                                                         *)
(* Conventions                                                             *)
(*  - A status register is the SET of the weights of its one bits          *)
(*    (STA_ERR = 1, STA_DONE = 32768, ...): OR is \cup, AND-NOT is \.      *)
(*  - The other registers are integers, decoded with \div and %.           *)
(*  - The simulator's event queue is the function `due': due[u] = Idle     *)
(*    when unit u has no event, else the time left until its service       *)
(*    routine runs.  sim_activate does nothing for a unit already queued.  *)
(*    Time advances (Elapse) up to the next due event; an event that is    *)
(*    due runs before the next bus transaction.                            *)
(*  - `last' records the operation that produced the current state and    *)
(*    the part of the state before it that the properties refer to.        *)
(*  - Data: a run follows the memory words and the words of the backing    *)
(*    file that its program names: M, dhp_file and dkt_file are the memory  *)
(*    and the files restricted to them, and a word that comes from outside  *)
(*    them is Unknown.  Most programs follow none.  The memory is 32K words *)
(*    but for the programs that run on a 16K machine.                       *)
(*  - The two controllers share no state.  A run drives one of them with   *)
(*    one repertoire of register words, both named by `prog': every run    *)
(*    uses every opcode with every pulse in every order, and the           *)
(*    repertoires differ in the words the program writes.                  *)
(***************************************************************************)
EXTENDS Integers, Sequences, FiniteSets, TLC

VARIABLES
    prog,       \* the controller this run drives and its repertoire of words
    last,       \* the operation that produced this state (history)
    \* ---- hard disk (micronova_dhp.c) ----
    dhp_ma,     \* memory address register
    dhp_map,    \* DCH map selector
    dhp_ussc,   \* unit / surface / sector / count register
    dhp_fccy,   \* flags / command / cylinder register
    dhp_sta,    \* status register (set of bit weights)
    dhp_busy,   \* dev_busy & INT_DHP
    dhp_done,   \* dev_done & INT_DHP
    dhp_unit,   \* [unit -> [FUNC, CYL, att, wprt]]
    dhp_due,    \* [unit -> Idle or time left until dhp_svc]
    dhp_twice,  \* sim_activate was called for a unit that had an event queued
    M,          \* the memory words the run follows: [address -> word]
    dhp_file,   \* [unit -> the words of its backing file the run follows:
                \*          [<<block, word>> -> word]]
    dhp_wlog,   \* the latest write the service routine did (history)
    \* ---- floppy (micronova_dkt.c) ----
    dkt_6038_sc,    \* specify command register
    dkt_6038_ma,    \* memory address counter register
    dkt_6038_ca,    \* current address register
    dkt_6038_progload_romaddr,  \* next address of the program load ROM
    dkt_sta,    \* status register (set of bit weights)
    dkt_busy,   \* dev_busy & INT_DKT
    dkt_done,   \* dev_done & INT_DKT
    dkt_unit,   \* [unit -> [FUNC, CYL, SECT, att, wprt]]
    dkt_due,    \* [unit or DKT_TIMER -> Idle or time left until its service]
    dkt_twice,  \* sim_activate was called for a unit that had an event queued
    dkt_file    \* [unit -> the words of its backing file the run follows]

dhpVars == <<dhp_ma, dhp_map, dhp_ussc, dhp_fccy, dhp_sta, dhp_busy, dhp_done,
             dhp_unit, dhp_due, dhp_twice, M, dhp_file, dhp_wlog>>

dktVars == <<dkt_6038_sc, dkt_6038_ma, dkt_6038_ca, dkt_6038_progload_romaddr,
             dkt_sta, dkt_busy, dkt_done, dkt_unit, dkt_due, dkt_twice,
             dkt_file>>

----------------------------------------------------------------------------
(* Bit arithmetic on 16-bit words *)

WordBits == {1, 2, 4, 8, 16, 32, 64, 128, 256, 512, 1024, 2048, 4096, 8192,
             16384, 32768}

\* x & b # 0, for a bit weight b
Bit(x, b) == (x \div b) % 2 = 1

\* the set of weights of the one bits of x
BitsOf(x) == {b \in WordBits : Bit(x, b)}

\* a & m, for a mask m = 2^k - 1
Low(x, m) == x % (m + 1)

\* (x >> v) & m, for a mask m = 2^k - 1
Field(x, v, m) == (x \div (2^v)) % (m + 1)

\* the sum of a set of bit weights: the word with exactly these bits set
Word(bits) ==
    LET w(b) == IF b \in bits THEN b ELSE 0
    IN  w(1) + w(2) + w(4) + w(8) + w(16) + w(32) + w(64) + w(128)
          + w(256) + w(512) + w(1024) + w(2048) + w(4096) + w(8192)
          + w(16384) + w(32768)

\* bitwise OR of two words
BitOr(a, b) == Word(BitsOf(a) \cup BitsOf(b))

Abs(x) == IF x < 0 THEN -x ELSE x

Min(S) == CHOOSE x \in S : \A y \in S : x <= y

\* the event queue: no event queued
Idle == -1

\* I/O pulses and opcodes (IR<8:9>, IR<5:7>)
iopN == 0
iopS == 1
iopC == 2
iopP == 3
ioNIO == 0
ioDIA == 1
ioDOA == 2
ioDIB == 3
ioDOB == 4
ioDIC == 5
ioDOC == 6

Pulses == {iopN, iopS, iopC, iopP}
\* (the CPU executes SKP itself: it never reaches a device routine)
Codes  == {ioNIO, ioDIA, ioDOA, ioDIB, ioDOB, ioDIC, ioDOC}

\* address mask of the MicroNOVA (15 bits)
AMASK == 32767


----------------------------------------------------------------------------
(* Hard disk: register layout (micronova_dhp.c 70-202) *)

DHP_NUMDR == 1
DHP_NUMWD == 256

USSC_V_COUNT    == 0
USSC_M_COUNT    == 15
USSC_V_OSECTOR  == 4
USSC_M_OSECTOR  == 15
USSC_V_OSURFACE == 8
USSC_M_OSURFACE == 63
USSC_V_UNIT     == 14
USSC_M_UNIT     == 3
USSC_UNIT       == USSC_M_UNIT * (2^USSC_V_UNIT)

FCCY_V_OCYL == 0
FCCY_M_OCYL == 255
FCCY_V_OCMD == 8
FCCY_M_OCMD == 3
FCCY_V_OCEX == 10
FCCY_OCEX   == 2^FCCY_V_OCEX
FCCY_READ   == 0
FCCY_WRITE  == 1
FCCY_SEEK   == 2
FCCY_RECAL  == 3
\* 0174000
FCCY_FLAGS  == {2048, 4096, 8192, 16384, 32768}

STA_ERR   == 1
STA_DLT   == 2
STA_CRC   == 4
STA_UNS   == 8
STA_XCY   == 16
STA_CYL   == 32
STA_DRDY  == 64
STA_SEEK3 == 128
STA_SEEK2 == 256
STA_SEEK1 == 512
STA_SEEK0 == 1024
STA_SKDN3 == 2048
STA_SKDN2 == 4096
STA_SKDN1 == 8192
STA_SKDN0 == 16384
STA_DONE  == 32768

STA_EFLGS == {STA_ERR, STA_DLT, STA_CRC, STA_UNS, STA_XCY, STA_CYL}
STA_DFLGS == {STA_DONE, STA_SKDN0, STA_SKDN1, STA_SKDN2, STA_SKDN3}

\* the 6095 geometry, the only row of drv_tab (old register format)
SECT_6095 == 12
SURF_6095 == 4
CYL_6095  == 408

\* timing registers (never written by the controller)
dhp_swait == 100
dhp_rwait == 100

\* diagnostic mode: the controller only ever clears it
dhp_diagmode == 0

\* units the unit field of dhp_ussc can select (dhp_unit[] has four entries)
DhpUnits == 0..USSC_M_UNIT

\* units the device descriptor declares, the ones that can be attached
DhpAttachable == 0..(DHP_NUMDR - 1)

GET_COUNT(x) == Field(x, USSC_V_COUNT, USSC_M_COUNT)
GET_SECT(x)  == Field(x, USSC_V_OSECTOR, USSC_M_OSECTOR)
GET_SURF(x)  == Field(x, USSC_V_OSURFACE, USSC_M_OSURFACE)
GET_UNIT(x)  == Field(x, USSC_V_UNIT, USSC_M_UNIT)
GET_CMD(x)   == Field(x, FCCY_V_OCMD, FCCY_M_OCMD)

\* old format: 8 cylinder bits, and the extension bit (bit 10) moved to bit 8
\* (the two parts share no bit, so the OR is their sum)
GET_CYL(x) ==
    Field(x, FCCY_V_OCYL, FCCY_M_OCYL)
      + ((((x \div FCCY_OCEX) % 2) * FCCY_OCEX) \div (2^(FCCY_V_OCEX - FCCY_V_OCMD)))

\* (variant: the count is kept in three bits)
DHP_UPDATE_USSC_count_of_8(ussc, count, surf, sect) ==
    BitOr(BitOr(((ussc \div (2^USSC_V_UNIT)) % (USSC_M_UNIT + 1)) * (2^USSC_V_UNIT),
                Low(ussc + count, 7)),
          BitOr(surf * (2^USSC_V_OSURFACE), sect * (2^USSC_V_OSECTOR)))


\* (no sector or surface masking is done)
DHP_UPDATE_USSC(ussc, count, surf, sect) ==
    BitOr(BitOr(((ussc \div (2^USSC_V_UNIT)) % (USSC_M_UNIT + 1)) * (2^USSC_V_UNIT),
                Low(ussc + count, USSC_M_COUNT)),
          BitOr(surf * (2^USSC_V_OSURFACE), sect * (2^USSC_V_OSECTOR)))

\* (variant: the sector and surface counts of drv_tab taken for each other)
DHP_GET_SA_swapped(cy, sf, sc) == ((cy * SECT_6095) + sf) * SURF_6095 + sc

\* linear block address of (cylinder, surface, sector)
DHP_GET_SA(cy, sf, sc) == ((cy * SURF_6095) + sf) * SECT_6095 + sc

\* STA_SEEK0 >> u, STA_SKDN0 >> u
StaSeek(u) == STA_SEEK0 \div (2^u)
StaSkdn(u) == STA_SKDN0 \div (2^u)

\* sim_is_active, sim_activate, sim_cancel on the event queue of state s;
\* `twice' remembers a sim_activate for a unit that was already queued
sim_is_active(s, u) == s.due[u] # Idle
sim_activate(s, u, t) ==
    IF sim_is_active(s, u) THEN [s EXCEPT !.twice = TRUE]
    ELSE [s EXCEPT !.due[u] = t]
sim_cancel(s, u) == [s EXCEPT !.due[u] = Idle]

\* the controller's state as one record, the value the handlers transform
DhpState ==
    [ma |-> dhp_ma, map |-> dhp_map, ussc |-> dhp_ussc, fccy |-> dhp_fccy,
     sta |-> dhp_sta, busy |-> dhp_busy, done |-> dhp_done,
     unit |-> dhp_unit, due |-> dhp_due, twice |-> dhp_twice,
     mem |-> M, file |-> dhp_file]

----------------------------------------------------------------------------
(* Hard disk: dhp_go, the command dispatcher (micronova_dhp.c 447-567).    *)
(* Result: [s |-> the state after, ok |-> the value returned].             *)

\* variant: a controller that takes a command from either pulse
dhp_any_pulse(pulse) == TRUE

\* the pulse that starts a read or write, and the one that starts a seek
dhp_rw_pulse(pulse) == pulse = iopS
dhp_seek_pulse(pulse) == pulse = iopP

\* variant: every failing address check reports, not only the first
dhp_go_addr_all(s, u) ==
    (IF s.unit[u].CYL >= CYL_6095 THEN {STA_CYL} ELSE {})
        \cup (IF GET_SURF(s.ussc) >= SURF_6095 THEN {STA_UNS} ELSE {})
        \cup (IF GET_SECT(s.ussc) >= SECT_6095 THEN {STA_XCY} ELSE {})

\* the address checks of a read or write, in the order of the else-if chain:
\* the status bits of the first one that fails
dhp_go_addr(s, u) ==
    IF s.unit[u].CYL >= CYL_6095 THEN {STA_CYL}
    ELSE IF GET_SURF(s.ussc) >= SURF_6095 THEN {STA_UNS}
    ELSE IF GET_SECT(s.ussc) >= SECT_6095 THEN {STA_XCY}
    ELSE {}

\* variant: a controller that does not look at the write lock
dhp_unit_off(up) == ~up.att

\* the unit cannot take the read or write: not attached, or a write to a
\* write-protected unit
dhp_unit_refuses(up) == (~up.att) \/ (up.wprt /\ up.FUNC = FCCY_WRITE)

\* read and write: validate, then schedule after the rotate wait
dhp_go_rw(s, pulse, u) ==
    LET up   == s.unit[u]
        bad  == {STA_DONE, STA_ERR}
        sta1 == IF dhp_unit_refuses(up)
                    THEN s.sta \cup bad
                ELSE IF dhp_go_addr(s, u) # {}
                    THEN s.sta \cup bad \cup dhp_go_addr(s, u)
                ELSE s.sta
    IN  IF (~dhp_rw_pulse(pulse)) \/ STA_ERR \in sta1
        THEN [s |-> [s EXCEPT !.sta = sta1], ok |-> FALSE]
        ELSE [s |-> sim_activate([s EXCEPT !.sta = sta1], u, dhp_rwait),
              ok |-> TRUE]

\* variant: the seek delay without the minimum wait
dhp_seek_time_no_minimum(oldCyl, newCyl) == dhp_swait * Abs(oldCyl - newCyl)

\* the seek delay: cylinders crossed, at least one when a seek wait is set
dhp_seek_time(oldCyl, newCyl) ==
    LET d == Abs(oldCyl - newCyl)
    IN  dhp_swait * (IF dhp_swait # 0 /\ d = 0 THEN 1 ELSE d)

\* variant: a seek that is scheduled whatever the cylinder asked for
dhp_go_seek_any_cylinder(s, pulse, u, oldCyl) ==
    LET up   == s.unit[u]
        sta1 == IF ~up.att THEN s.sta \cup {STA_DONE, STA_ERR} ELSE s.sta
    IN  IF (~dhp_seek_pulse(pulse)) \/ STA_ERR \in sta1
        THEN [s |-> [s EXCEPT !.sta = sta1], ok |-> FALSE]
        ELSE [s |-> sim_activate([s EXCEPT !.sta = sta1 \cup {StaSeek(u)}],
                                 u, dhp_seek_time(oldCyl, up.CYL)),
              ok |-> TRUE]


\* seek (and recalibrate, already rewritten as a seek to cylinder 0)
dhp_go_seek(s, pulse, u, oldCyl) ==
    LET up   == s.unit[u]
        sta1 == IF ~up.att
                    THEN s.sta \cup {STA_DONE, STA_ERR}
                ELSE IF up.CYL >= CYL_6095
                    THEN s.sta \cup {STA_ERR, STA_CYL}
                ELSE s.sta
    IN  IF (~dhp_seek_pulse(pulse)) \/ STA_ERR \in sta1
        THEN [s |-> [s EXCEPT !.sta = sta1], ok |-> FALSE]
        ELSE [s |-> sim_activate([s EXCEPT !.sta = sta1 \cup {StaSeek(u)}],
                                 u, dhp_seek_time(oldCyl, up.CYL)),
              ok |-> TRUE]

\* variant: a dispatcher that does not look at the event queue
dhp_go_refuses_unattached(s, u) == ~s.unit[u].att

\* the dispatcher refuses a unit that is not attached or has an event queued
dhp_go_refuses(s, u) == (~s.unit[u].att) \/ sim_is_active(s, u)

dhp_go(s0, pulse) ==
    LET s  == [s0 EXCEPT !.sta = s0.sta \ STA_EFLGS]
        u  == GET_UNIT(s.ussc)
    IN  IF dhp_go_refuses(s, u)
        THEN [s |-> [s EXCEPT !.sta = @ \cup {STA_ERR}], ok |-> FALSE]
        ELSE IF dhp_diagmode # 0
        THEN [s |-> [s EXCEPT !.sta = @ \cup {STA_DONE},
                              !.busy = FALSE, !.done = TRUE],
              ok |-> TRUE]
        ELSE
        LET oldCyl == s.unit[u].CYL
            cmd    == GET_CMD(s.fccy)
            s1     == [s EXCEPT !.unit[u].FUNC = cmd,
                                !.unit[u].CYL  = GET_CYL(s.fccy)]
            s2     == [s1 EXCEPT !.unit[u].FUNC = FCCY_SEEK,
                                 !.unit[u].CYL  = 0]
        IN  IF cmd \in {FCCY_READ, FCCY_WRITE} THEN dhp_go_rw(s1, pulse, u)
            ELSE IF cmd = FCCY_RECAL THEN dhp_go_seek(s2, pulse, u, oldCyl)
            ELSE dhp_go_seek(s1, pulse, u, oldCyl)

----------------------------------------------------------------------------
(* Hard disk: dhp, the IOT routine (micronova_dhp.c 305-440).              *)
(* Result: [s |-> the state after,                                         *)
(*          ok |-> the dispatcher's verdict "ok" / "fail", "cancel" (the   *)
(*                 clear pulse removed a queued event), or "none"];        *)
(* the word returned is dhp_rval.                                          *)

\* variant: a status read that sets drive ready and never clears it
dhp_dia_sta_keeps_ready(s) ==
    LET up == s.unit[GET_UNIT(s.ussc)]
        b  == IF up.att THEN s.sta \cup {STA_DRDY} ELSE s.sta
        c  == IF up.CYL >= CYL_6095 THEN b \cup {STA_CYL} ELSE b
    IN  IF c \cap STA_EFLGS # {} THEN c \cup {STA_ERR} ELSE c

\* the status as a read of it (DIA) leaves it: drive ready and bad cylinder
\* of the selected unit as they are now, and the error bit if any flag is set
dhp_dia_sta(s) ==
    LET up == s.unit[GET_UNIT(s.ussc)]
        a  == s.sta \ {STA_DRDY}
        b  == IF up.att THEN a \cup {STA_DRDY} ELSE a
        c  == IF up.CYL >= CYL_6095 THEN b \cup {STA_CYL} ELSE b
    IN  IF c \cap STA_EFLGS # {} THEN c \cup {STA_ERR} ELSE c

\* switch (code): the opcode's effect on the registers
dhp_code(s, code, AC) ==
    IF code = ioDIA THEN [s EXCEPT !.sta = dhp_dia_sta(s)]
    ELSE IF code = ioDOA THEN
        LET a == IF Bit(AC, STA_DONE)
                 THEN s.sta \ {STA_CYL, STA_XCY, STA_UNS, STA_CRC}
                 ELSE s.sta
            b == IF ~s.busy THEN a \ {f \in FCCY_FLAGS : Bit(AC, f)} ELSE a
        IN  [s EXCEPT !.sta  = b,
                      !.fccy = IF ~s.busy THEN AC ELSE @,
                      !.done = (b \cap STA_DFLGS # {})]
    ELSE IF code = ioDOB THEN
        IF ~s.busy
        THEN [s EXCEPT !.ma  = Low(AC, AMASK),
                       !.map = IF Bit(AC, 32768) THEN 3 ELSE 0]
        ELSE s
    ELSE IF code = ioDOC THEN
        IF ~s.busy THEN [s EXCEPT !.ussc = AC] ELSE s
    ELSE s

\* switch (code): the word the instruction returns to the accumulator
dhp_rval(s, code) ==
    IF code = ioDIA THEN Word(dhp_dia_sta(s))
    ELSE IF code = ioDIB THEN Low(s.ma, 32767)
    ELSE IF code = ioDIC THEN s.ussc
    ELSE 0

\* case iopS
dhp_start(s) ==
    LET r == dhp_go([s EXCEPT !.busy = TRUE, !.done = FALSE], iopS)
    IN  IF r.ok THEN [s |-> r.s, ok |-> "ok"]
        ELSE [s |-> [r.s EXCEPT !.busy = FALSE, !.done = TRUE,
                                !.sta = @ \cup {STA_DONE}],
              ok |-> "fail"]

\* variant: a clear pulse that cancels the event of a seek and of nothing else
dhp_clear_seek_only(s) ==
    LET u == GET_UNIT(s.ussc)
        c == [s EXCEPT !.busy = FALSE, !.done = FALSE,
                       !.sta = @ \ (STA_DFLGS \cup STA_EFLGS)]
    IN  IF s.unit[u].FUNC = FCCY_SEEK
        THEN [s |-> sim_cancel(c, u),
              ok |-> IF sim_is_active(s, u) THEN "cancel" ELSE "none"]
        ELSE [s |-> c, ok |-> "none"]

\* (variant: a clear pulse that clears the done flags and keeps the errors)
dhp_clear_keeps_errors(s) ==
    LET u == GET_UNIT(s.ussc)
        c == [s EXCEPT !.busy = FALSE, !.done = FALSE, !.sta = @ \ STA_DFLGS]
    IN  IF s.unit[u].FUNC # FCCY_SEEK
        THEN [s |-> sim_cancel(c, u),
              ok |-> IF sim_is_active(s, u) THEN "cancel" ELSE "none"]
        ELSE [s |-> c, ok |-> "none"]

\* case iopC
dhp_clear(s) ==
    LET u == GET_UNIT(s.ussc)
        c == [s EXCEPT !.busy = FALSE, !.done = FALSE,
                       !.sta = @ \ (STA_DFLGS \cup STA_EFLGS)]
    IN  IF s.unit[u].FUNC # FCCY_SEEK
        THEN [s |-> sim_cancel(c, u),
              ok |-> IF sim_is_active(s, u) THEN "cancel" ELSE "none"]
        ELSE [s |-> c, ok |-> "none"]

\* variant: a special pulse that, refused, sets done but no seek-done bit
dhp_special_no_skdn(s) ==
    LET r == dhp_go([s EXCEPT !.done = FALSE], iopP)
    IN  IF r.ok THEN [s |-> r.s, ok |-> "ok"]
        ELSE [s |-> [r.s EXCEPT !.done = TRUE], ok |-> "fail"]

\* case iopP
dhp_special(s) ==
    LET u == GET_UNIT(s.ussc)
        r == dhp_go([s EXCEPT !.done = FALSE], iopP)
        f == IF dhp_diagmode # 0 THEN s ELSE r.s
    IN  IF dhp_diagmode = 0 /\ r.ok THEN [s |-> r.s, ok |-> "ok"]
        ELSE [s |-> [f EXCEPT !.done = TRUE, !.sta = @ \cup {StaSkdn(u)}],
              ok |-> IF dhp_diagmode # 0 THEN "none" ELSE "fail"]

dhp(s, pulse, code, AC) ==
    LET c == dhp_code(s, code, AC)
    IN  IF pulse = iopS THEN dhp_start(c)
        ELSE IF pulse = iopC THEN dhp_clear(c)
        ELSE IF pulse = iopP THEN dhp_special(c)
        ELSE [s |-> c, ok |-> "none"]

----------------------------------------------------------------------------
(* Hard disk: dhp_svc, the unit service routine (micronova_dhp.c 582-752). *)
(* Result: [s |-> the state after, rval |-> the status returned,           *)
(*          n |-> the number of sectors transferred,                       *)
(*          w |-> the number of fxwrite calls on the backing file].        *)

SCPE_OK    == 0
SCPE_IOERR == 66

\* variant: a seek service that, on a unit no longer attached, reports the
\* error and leaves the seek bits as they are
dhp_svc_seek_attached_only(s, u) ==
    IF ~s.unit[u].att
    THEN [s |-> [s EXCEPT !.done = TRUE, !.sta = @ \cup {STA_DONE, STA_ERR}],
          rval |-> SCPE_OK, n |-> 0, w |-> 0]
    ELSE [s |-> [s EXCEPT !.done = TRUE,
                          !.sta = (@ \cup {StaSkdn(u)}) \ {StaSeek(u)}],
          rval |-> SCPE_OK, n |-> 0, w |-> 0]

\* if (uptr->FUNC == FCCY_SEEK) { ... return SCPE_OK; }
dhp_svc_seek(s, u) ==
    LET up   == s.unit[u]
        sta1 == IF ~up.att
                    THEN s.sta \cup {STA_DONE, STA_ERR}
                ELSE IF up.CYL >= CYL_6095
                    THEN s.sta \cup {STA_ERR, STA_CYL}
                ELSE s.sta
    IN  [s |-> [s EXCEPT !.done = TRUE,
                         !.sta = (sta1 \cup {StaSkdn(u)}) \ {StaSeek(u)}],
         rval |-> SCPE_OK, n |-> 0, w |-> 0]

\* the do { ... } while (GET_COUNT(dhp_ussc)) loop, from its k-th pass on;
\* failAt is the pass in which ferror() reports an error (0: in none).
\* Both ferror tests leave the loop at once, so the code that sets
\* SCPE_IOERR (lines 717-722) is never reached with err # 0.
\* variant: a surface number that wraps to 0 after the last surface
dhp_newsurf_wraps(ussc) == (GET_SURF(ussc) + 1) % SURF_6095

\* (variant: the sector goes back to 0 and the surface stays)
dhp_newsurf_stays(ussc) == GET_SURF(ussc)

\* newsurf = (GET_SURF(dhp_ussc) + 1) & USSC_M_OSURFACE
dhp_newsurf(ussc) == Low(GET_SURF(ussc) + 1, USSC_M_OSURFACE)

\* a word the run does not follow
Unknown == -1

\* the bank mapping and the bounds check of the CPU (the MicroNOVA has no
\* map: the address is the physical address; the memory is 32K words, or
\* 16K on the machine of the programs "dhp.edge" and "dkt.data")
MEMSIZE == IF prog \in {"dhp.edge", "dkt.data"} THEN 16384 ELSE 32768
MapAddr(map, addr) == addr
MEM_ADDR_OK(pa) == pa < MEMSIZE

\* word dx of block sa as fxread leaves it in tbuf
dhp_tbuf(file, sa, dx) ==
    IF <<sa, dx>> \in DOMAIN file THEN file[<<sa, dx>>] ELSE Unknown

\* (variant: the word is stored without the bounds check)
dhp_to_memory_unchecked(mem, map, ma, file, sa) ==
    [pa \in DOMAIN mem |->
        LET dx == (pa + AMASK + 1 - ma) % (AMASK + 1)
        IN  IF /\ dx < DHP_NUMWD
               /\ MapAddr(map, Low(ma + dx, AMASK)) = pa
            THEN dhp_tbuf(file, sa, dx)
            ELSE mem[pa]]

\* for (dx = 0; dx < DHP_NUMWD; dx++) { pa = MapAddr (dhp_map, dhp_ma & AMASK);
\*     if (MEM_ADDR_OK (pa)) M[pa] = tbuf[dx];  dhp_ma = (dhp_ma + 1) & AMASK; }
\* the memory after the loop: word pa takes tbuf[dx] for the dx, if there is
\* one below DHP_NUMWD, whose address ma + dx (mod 32K) maps to pa
dhp_to_memory(mem, map, ma, file, sa) ==
    [pa \in DOMAIN mem |->
        LET dx == (pa + AMASK + 1 - ma) % (AMASK + 1)
        IN  IF /\ dx < DHP_NUMWD
               /\ MapAddr(map, Low(ma + dx, AMASK)) = pa
               /\ MEM_ADDR_OK(pa)
            THEN dhp_tbuf(file, sa, dx)
            ELSE mem[pa]]

\* (variant: the memory address is advanced before the word is fetched)
dhp_from_memory_advanced_first(file, map, mem, ma, sa) ==
    [c \in DOMAIN file |->
        IF c[1] = sa
        THEN LET pa == MapAddr(map, Low(ma + c[2] + 1, AMASK))
             IN  IF pa \in DOMAIN mem THEN mem[pa] ELSE Unknown
        ELSE file[c]]

\* for (dx = 0; dx < DHP_NUMWD; dx++) { pa = MapAddr (dhp_map, dhp_ma & AMASK);
\*     tbuf[dx] = M[pa];  dhp_ma = (dhp_ma + 1) & AMASK; }  fxwrite (tbuf, ...)
\* the file after the write of block sa
dhp_from_memory(file, map, mem, ma, sa) ==
    [c \in DOMAIN file |->
        IF c[1] = sa
        THEN LET pa == MapAddr(map, Low(ma + c[2], AMASK))
             IN  IF pa \in DOMAIN mem THEN mem[pa] ELSE Unknown
        ELSE file[c]]

\* the file after a write of block sa that ferror() reports as failed
dhp_spoil(file, sa) ==
    [c \in DOMAIN file |-> IF c[1] = sa THEN Unknown ELSE file[c]]

RECURSIVE dhp_xfer(_, _, _, _)
dhp_xfer(s, u, k, failAt) ==
    LET over    == GET_SECT(s.ussc) >= SECT_6095
        newsurf == dhp_newsurf(s.ussc)
        s1      == IF over
                   THEN [s EXCEPT !.ussc = DHP_UPDATE_USSC(s.ussc, 0, newsurf, 0)]
                   ELSE s
        sa      == DHP_GET_SA(s.unit[u].CYL, GET_SURF(s1.ussc), GET_SECT(s1.ussc))
        rd      == s.unit[u].FUNC = FCCY_READ
        \* the 256 words are copied, and the memory address moves with them
        moved   == [s1 EXCEPT
                      !.ma      = Low(s1.ma + DHP_NUMWD, AMASK),
                      !.mem     = IF rd THEN dhp_to_memory(@, s1.map, s1.ma,
                                                          s1.file[u], sa)
                                  ELSE @,
                      !.file[u] = IF rd THEN @
                                  ELSE dhp_from_memory(@, s1.map, s1.mem,
                                                       s1.ma, sa)]
        \* a write that fails: what the file holds of the sector is not known
        spoilt  == [moved EXCEPT !.file[u] = dhp_spoil(@, sa)]
        s2      == [moved EXCEPT !.ussc =
                       DHP_UPDATE_USSC(s1.ussc, 1, GET_SURF(s1.ussc),
                                       GET_SECT(s1.ussc) + 1)]
        \* fxwrite is called once in every pass of a write that gets to it
        wr(j)   == IF s.unit[u].FUNC = FCCY_WRITE THEN j ELSE 0
    IN  IF over /\ GET_SURF(s1.ussc) >= SURF_6095
        THEN [s |-> [s1 EXCEPT !.sta = @ \cup {STA_DONE, STA_ERR, STA_XCY}],
              rval |-> SCPE_OK, n |-> k - 1, w |-> wr(k - 1)]
        ELSE IF k = failAt
        THEN [s |-> IF rd THEN s1 ELSE spoilt,
              rval |-> SCPE_OK, n |-> k - 1, w |-> wr(k)]
        ELSE IF GET_COUNT(s2.ussc) # 0
        THEN dhp_xfer(s2, u, k + 1, failAt)
        ELSE [s |-> s2, rval |-> SCPE_OK, n |-> k, w |-> wr(k)]

\* variant: the end of a read or write sets done and leaves busy
dhp_svc_end_done_only(s) == [s EXCEPT !.done = TRUE]

\* DEV_CLR_BUSY, DEV_SET_DONE at the end of a read or write
dhp_svc_end(s) == [s EXCEPT !.busy = FALSE, !.done = TRUE]

\* read or write
dhp_svc_rw(s, u, failAt) ==
    LET up   == s.unit[u]
        bad  == {STA_DONE, STA_ERR}
        fin(r) == [r EXCEPT !.s = dhp_svc_end(@)]
    IN  IF dhp_unit_refuses(up)
        THEN fin([s |-> [s EXCEPT !.sta = @ \cup bad], rval |-> SCPE_OK, n |-> 0, w |-> 0])
        ELSE IF up.CYL >= CYL_6095
        THEN \* returns at once: busy is left as it is
             [s |-> [s EXCEPT !.sta = @ \cup bad \cup {STA_CYL}, !.done = TRUE],
              rval |-> SCPE_OK, n |-> 0, w |-> 0]
        ELSE IF GET_SURF(s.ussc) >= SURF_6095
        THEN fin([s |-> [s EXCEPT !.sta = @ \cup bad \cup {STA_UNS}],
                  rval |-> SCPE_OK, n |-> 0, w |-> 0])
        ELSE IF GET_SECT(s.ussc) >= SECT_6095
        THEN fin([s |-> [s EXCEPT !.sta = @ \cup bad \cup {STA_XCY}],
                  rval |-> SCPE_OK, n |-> 0, w |-> 0])
        ELSE LET r == dhp_xfer(s, u, 1, failAt)
             IN  fin([r EXCEPT !.s.sta = @ \cup {STA_DONE}])

dhp_svc(s, u, failAt) ==
    IF s.unit[u].FUNC = FCCY_SEEK THEN dhp_svc_seek(s, u)
    ELSE dhp_svc_rw(s, u, failAt)

\* variant: a reset that clears the registers and cancels nothing
dhp_reset_keeps_events(s) ==
    [s EXCEPT !.busy = FALSE, !.done = FALSE,
              !.fccy = 0, !.ussc = 0, !.ma = 0, !.sta = {}, !.map = 0,
              !.unit = [u \in DhpUnits |->
                           IF u < DHP_NUMDR
                           THEN [s.unit[u] EXCEPT !.CYL = 0, !.FUNC = 0]
                           ELSE s.unit[u]]]


\* dhp_reset (micronova_dhp.c 756-773): only the DHP_NUMDR declared units
dhp_reset(s) ==
    [s EXCEPT !.busy = FALSE, !.done = FALSE,
              !.fccy = 0, !.ussc = 0, !.ma = 0, !.sta = {}, !.map = 0,
              !.due  = [u \in DhpUnits |->
                           IF u < DHP_NUMDR THEN Idle ELSE s.due[u]],
              !.unit = [u \in DhpUnits |->
                           IF u < DHP_NUMDR
                           THEN [s.unit[u] EXCEPT !.CYL = 0, !.FUNC = 0]
                           ELSE s.unit[u]]]

----------------------------------------------------------------------------
(* Hard disk: the inputs the model draws from, and the actions *)

\* cylinders written to the command register: first, another, first invalid
DhpCyls == {0, 2, CYL_6095}

\* a DOA word: flags, command, and the cylinder in the old layout
DhpDoaWord(flags, cmd, cyl) ==
    flags + cmd * (2^FCCY_V_OCMD) + (cyl % 256) + (cyl \div 256) * FCCY_OCEX

\* the repertoires of the hard disk
DhpProgs == {"dhp.seek", "dhp.xfer", "dhp.sel", "dhp.data", "dhp.edge"}

\* the repertoires that run side by side; "dhp.sel", a program that selects
\* a second unit, "dhp.data", one that writes its buffer to the disk and
\* reads it back, and "dhp.edge", one that reads a sector to the end of a
\* 16K memory, each run on their own
DhpShortProgs == DhpProgs \ {"dhp.sel", "dhp.data", "dhp.edge"}

\* the sectors "dhp.data" moves with one command, and the words of each
\* sector that its run follows
DhpTripN == {1, 2, 16}
DhpDx == {0, DHP_NUMWD - 1}

\* "dhp.seek": seek to every cylinder, recalibrate, and a read;
\* "dhp.xfer": read from a valid and from an invalid cylinder, and a write;
\* "dhp.sel":  seek to the first and to the first invalid cylinder;
\* "dhp.data": write and read cylinder 0;
\* "dhp.edge": read cylinder 0
DhpDoaAC ==
    IF prog = "dhp.seek"
    THEN {DhpDoaWord(0, FCCY_SEEK, y) : y \in DhpCyls}
            \cup {DhpDoaWord(0, FCCY_RECAL, 0), DhpDoaWord(0, FCCY_READ, 0)}
    ELSE IF prog = "dhp.sel"
    THEN {DhpDoaWord(0, FCCY_SEEK, y) : y \in {0, CYL_6095}}
    ELSE IF prog = "dhp.data"
    THEN {DhpDoaWord(0, c, 0) : c \in {FCCY_READ, FCCY_WRITE}}
    ELSE IF prog = "dhp.edge"
    THEN {DhpDoaWord(0, FCCY_READ, 0)}
    ELSE {DhpDoaWord(0, FCCY_READ, y) : y \in {0, CYL_6095}}
            \cup {DhpDoaWord(0, FCCY_WRITE, 0)}

\* a DOC word: unit, surface, sector, count
DhpDocWord(u, sf, sc, n) ==
    u * (2^USSC_V_UNIT) + sf * (2^USSC_V_OSURFACE) + sc * (2^USSC_V_OSECTOR) + n

\* "dhp.seek": the last sector of the cylinder, one sector to go;
\* "dhp.xfer": the last valid and the first invalid surface and sector, one
\* sector to go, and two sectors from the last sector of the cylinder;
\* "dhp.sel":  the first sector of unit 0 and of unit 1;
\* "dhp.data": from the last sector of the first surface on, 1, 2 and 16
\*             sectors (the count field holds 16 less the sectors, mod 16);
\* "dhp.edge": the first sector, one sector to go
DhpDocAC ==
    IF prog = "dhp.seek"
    THEN {DhpDocWord(0, SURF_6095 - 1, SECT_6095 - 1, 15)}
    ELSE IF prog = "dhp.sel"
    THEN {DhpDocWord(u, 0, 0, 15) : u \in {0, 1}}
    ELSE IF prog = "dhp.data"
    THEN {DhpDocWord(0, 0, SECT_6095 - 1, (16 - n) % 16) : n \in DhpTripN}
    ELSE IF prog = "dhp.edge"
    THEN {DhpDocWord(0, 0, 0, 15)}
    ELSE {DhpDocWord(0, sf, sc, 15) :
             sf \in {SURF_6095 - 1, SURF_6095},
             sc \in {SECT_6095 - 1, SECT_6095}}
            \cup {DhpDocWord(0, SURF_6095 - 1, SECT_6095 - 1, 14)}

\* a DOB word: the last page of memory, through map B; in "dhp.edge" the
\* page that ends one word past the 16K of the machine, and the last word of
\* the address space
DhpDobAC ==
    IF prog = "dhp.edge" THEN {MEMSIZE - (DHP_NUMWD - 1), AMASK} ELSE {65280}

\* a start pulse is given with the memory address and the unit / surface /
\* sector / count register as the program loaded them (a transfer leaves both
\* advanced; the program reloads them before the next start)
DhpMaLoaded == {Low(a, AMASK) : a \in DhpDobAC}

\* the memory words the run follows: the followed words of the sixteen
\* sectors from the address the program loads; in "dhp.edge" the first two
\* and the last two words the sector goes to, and the word after them
DhpTracked ==
    IF prog = "dhp.data"
    THEN {Low(a + k * DHP_NUMWD + dx, AMASK) :
             a \in DhpMaLoaded, k \in 0..15, dx \in DhpDx}
    ELSE IF prog = "dhp.edge"
    THEN {Low(a + dx, AMASK) :
             a \in DhpMaLoaded, dx \in {0, 1, DHP_NUMWD - 2, DHP_NUMWD - 1, DHP_NUMWD}}
    ELSE {}

\* the words of the backing file the run follows: the followed words of the
\* sixteen blocks from the one the program starts at
DhpCells ==
    IF prog = "dhp.data"
    THEN {<<DHP_GET_SA(0, 0, SECT_6095 - 1) + k, dx>> : k \in 0..15, dx \in DhpDx}
    ELSE IF prog = "dhp.edge"
    THEN {<<DHP_GET_SA(0, 0, 0), dx>> : dx \in {0, 1, DHP_NUMWD - 2, DHP_NUMWD - 1}}
    ELSE {}

\* the pattern the program fills its buffer with: a different word in every
\* address, none of them 0
DhpPattern(a) == a + 1

\* no write yet; else the unit, the registers and the cylinder the latest
\* write began with, the sectors it wrote, and the memory it wrote them from
DhpNoWrite ==
    [u |-> 0, ma |-> 0, ussc |-> 0, cyl |-> 0, n |-> 0, words |-> <<>>]

\* the repertoire has a command that writes the medium
DhpWrites == \E w \in DhpDoaAC : GET_CMD(w) = FCCY_WRITE

DhpAC(code) ==
    IF code = ioDOA THEN DhpDoaAC
    ELSE IF code = ioDOB THEN DhpDobAC
    ELSE IF code = ioDOC THEN DhpDocAC
    ELSE {0}

\* the latest pass of the transfer loop in which the backing file may fail
MaxFail == 2

\* the call the simulator's loop has made and not yet returned from;
\* op: "init" (none), "iot", "svc", "reset", "cpu" (a store into memory) or
\* "env" (time, attach, write lock);
\* pulse: the pulse of an "iot"; ok: the dispatcher's verdict on it;
\* n: the sectors a "svc" transferred; w: the times it wrote the backing file
NoOp == [op |-> "init", pulse |-> iopN, ok |-> "none", n |-> 0, w |-> 0]

DhpSet(s) ==
    /\ dhp_ma' = s.ma
    /\ dhp_map' = s.map
    /\ dhp_ussc' = s.ussc
    /\ dhp_fccy' = s.fccy
    /\ dhp_sta' = s.sta
    /\ dhp_busy' = s.busy
    /\ dhp_done' = s.done
    /\ dhp_unit' = s.unit
    /\ dhp_due' = s.due
    /\ dhp_twice' = s.twice
    /\ M' = s.mem
    /\ dhp_file' = s.file

\* an event that is due runs before the next instruction
DhpEventDue == \E u \in DhpUnits : dhp_due[u] = 0

DhpInit ==
    /\ dhp_ma = 0
    /\ dhp_map = 0
    /\ dhp_ussc = 0
    /\ dhp_fccy = 0
    /\ dhp_sta = {}
    /\ dhp_busy = FALSE
    /\ dhp_done = FALSE
    /\ dhp_unit = [u \in DhpUnits |->
                      [FUNC |-> 0, CYL |-> 0, att |-> FALSE, wprt |-> FALSE]]
    /\ dhp_due = [u \in DhpUnits |-> Idle]
    /\ dhp_twice = FALSE
    /\ M = [a \in DhpTracked |-> 0]
    /\ dhp_file = [u \in DhpUnits |-> [c \in DhpCells |-> 0]]
    /\ dhp_wlog = DhpNoWrite

\* one I/O instruction addressed to the controller
DhpIot(pulse, code, AC) ==
    /\ prog \in DhpProgs
    /\ last = NoOp
    /\ ~DhpEventDue
    /\ LET r == dhp(DhpState, pulse, code, AC)
       IN  \* (a start pulse leaves both registers as the opcode left them)
           /\ pulse = iopS => /\ r.s.ma \in DhpMaLoaded
                              /\ r.s.ussc \in DhpDocAC
           /\ DhpSet(r.s)
           /\ last' = [op |-> "iot", pulse |-> pulse, ok |-> r.ok, n |-> 0,
                       w |-> 0]
    /\ UNCHANGED <<prog, dhp_wlog, dktVars>>

\* the event of unit u fires
DhpSvc(u, failAt) ==
    /\ prog \in DhpProgs
    /\ last = NoOp
    /\ dhp_due[u] = 0
    /\ LET r == dhp_svc([DhpState EXCEPT !.due[u] = Idle], u, failAt)
       IN  /\ DhpSet(r.s)
           /\ last' = [NoOp EXCEPT !.op = "svc", !.n = r.n, !.w = r.w]
           /\ dhp_wlog' = IF r.w > 0 /\ DhpTracked # {}
                          THEN [u |-> u, ma |-> dhp_ma, ussc |-> dhp_ussc,
                                cyl |-> dhp_unit[u].CYL, n |-> r.n, words |-> M]
                          ELSE dhp_wlog
    /\ UNCHANGED <<prog, dktVars>>

\* simulated time passes until the next event is due
DhpElapse ==
    /\ prog \in DhpProgs
    /\ last = NoOp
    /\ ~DhpEventDue
    /\ \E u \in DhpUnits : dhp_due[u] # Idle
    /\ LET d == Min({dhp_due[u] : u \in {v \in DhpUnits : dhp_due[v] # Idle}})
       IN  dhp_due' = [u \in DhpUnits |->
                          IF dhp_due[u] = Idle THEN Idle ELSE dhp_due[u] - d]
    /\ last' = [NoOp EXCEPT !.op = "env"]
    /\ UNCHANGED <<prog, dhp_ma, dhp_map, dhp_ussc, dhp_fccy, dhp_sta, dhp_busy,
                   dhp_done, dhp_unit, dhp_twice, M, dhp_file, dhp_wlog,
                   dktVars>>

\* the device reset
DhpReset ==
    /\ prog \in DhpProgs
    /\ last = NoOp
    /\ DhpSet(dhp_reset(DhpState))
    /\ last' = [NoOp EXCEPT !.op = "reset"]
    /\ UNCHANGED <<prog, dhp_wlog, dktVars>>

\* the operator attaches or detaches a unit's file, or flips the write lock
\* of a unit the program writes
DhpAttach(u) ==
    /\ prog \in DhpProgs
    /\ last = NoOp
    /\ dhp_unit' = [dhp_unit EXCEPT ![u].att = ~@]
    /\ last' = [NoOp EXCEPT !.op = "env"]
    /\ UNCHANGED <<prog, dhp_ma, dhp_map, dhp_ussc, dhp_fccy, dhp_sta, dhp_busy,
                   dhp_done, dhp_due, dhp_twice, M, dhp_file, dhp_wlog,
                   dktVars>>

DhpWriteLock(u) ==
    /\ prog \in DhpProgs
    /\ last = NoOp
    /\ DhpWrites
    /\ dhp_unit' = [dhp_unit EXCEPT ![u].wprt = ~@]
    /\ last' = [NoOp EXCEPT !.op = "env"]
    /\ UNCHANGED <<prog, dhp_ma, dhp_map, dhp_ussc, dhp_fccy, dhp_sta, dhp_busy,
                   dhp_done, dhp_due, dhp_twice, M, dhp_file, dhp_wlog,
                   dktVars>>

\* the program stores into its buffer: the pattern, or zeros
DhpStore(fill) ==
    /\ prog \in DhpProgs
    /\ last = NoOp
    /\ ~DhpEventDue
    /\ DhpTracked # {}
    /\ M' = [a \in DOMAIN M |-> IF fill THEN DhpPattern(a) ELSE 0]
    /\ last' = [NoOp EXCEPT !.op = "cpu"]
    /\ UNCHANGED <<prog, dhp_ma, dhp_map, dhp_ussc, dhp_fccy, dhp_sta, dhp_busy,
                   dhp_done, dhp_unit, dhp_due, dhp_twice, dhp_file, dhp_wlog,
                   dktVars>>

\* the call returns to the simulator's loop, which makes the next one
DhpReturn ==
    /\ prog \in DhpProgs
    /\ last # NoOp
    /\ last' = NoOp
    /\ UNCHANGED <<prog, dhpVars, dktVars>>

DhpNext ==
    \/ \E pulse \in Pulses, code \in Codes :
          \E AC \in DhpAC(code) : DhpIot(pulse, code, AC)
    \/ \E u \in DhpUnits, failAt \in 0..MaxFail : DhpSvc(u, failAt)
    \/ DhpElapse
    \/ DhpReset
    \/ \E u \in DhpAttachable : DhpAttach(u)
    \/ \E u \in DhpAttachable : DhpWriteLock(u)
    \/ DhpReturn

----------------------------------------------------------------------------
(* Floppy: register layout (micronova_dkt.c 82-187, 226-231, 662-664) *)

DKT_NUMDR == 2
DKT_NUMWD == 256
DKT_TIMER == DKT_NUMDR

SC_6038_V_CMD    == 0
SC_6038_M_CMD    == 255
SC_6038_V_SECTOR == 8
SC_6038_M_SECTOR == 7
SC_6038_V_UNIT   == 15
SC_6038_M_UNIT   == 1

SC_6038_GET_SECT(x) == Field(x, SC_6038_V_SECTOR, SC_6038_M_SECTOR)
SC_6038_GET_UNIT(x) == Field(x, SC_6038_V_UNIT, SC_6038_M_UNIT)
SC_6038_GET_CMD(x)  == Field(x, SC_6038_V_CMD, SC_6038_M_CMD)

\* the command codes as the source writes them: six octal, two decimal
SC_6038_SETTLE     == 0
SC_6038_STEPOUT    == 1
SC_6038_STEPIN     == 2
SC_6038_READPREAMB == 8
SC_6038_READNEXT   == 16
SC_6038_WRITENEXT  == 32
SC_6038_FORMAT0    == 240
SC_6038_FORMATNEXT == 241

MA_6038_M_ADDR   == 32767

CA_6038_V_SECTOR == 2
CA_6038_M_SECTOR == 7
CA_6038_V_TRACK  == 8
CA_6038_M_TRACK  == 127

\* the value CA_6038_SETADDR stores in dkt_6038_ca (the fields do not overlap)
CA_6038_SETADDR(trk, sect) ==
    Low(trk, CA_6038_M_TRACK) * (2^CA_6038_V_TRACK)
        + Low(sect, CA_6038_M_SECTOR) * (2^CA_6038_V_SECTOR)

STA_6038_NOTREADY     == 32768
STA_6038_TRACK0       == 16384
STA_6038_HEADON       == 8192
STA_6038_WRITEPROT    == 512
STA_6038_UNIT         == 256
STA_6038_DRIVESTAT    == 128
STA_6038_ILLEGAL      == 32
STA_6038_SECTORERR    == 16
STA_6038_CHECKWORDERR == 8
STA_6038_DATALATE     == 4
STA_6038_WRITEFAULT   == 2
STA_6038_ERROR        == 1

DKT_STA_EFLGS ==
    {STA_6038_ERROR, STA_6038_DATALATE, STA_6038_CHECKWORDERR,
     STA_6038_SECTORERR, STA_6038_WRITEFAULT, STA_6038_ILLEGAL,
     STA_6038_DRIVESTAT}

STA_FLGS_SCLR == DKT_STA_EFLGS \ {STA_6038_DRIVESTAT}

STA_FLGS_GENERAL_ERROR ==
    {STA_6038_ILLEGAL, STA_6038_SECTORERR, STA_6038_CHECKWORDERR,
     STA_6038_DATALATE, STA_6038_WRITEFAULT}

\* the status with its unit bit set to x
STA_6038_SET_UNIT(sta, x) ==
    IF x % 2 = 1 THEN sta \cup {STA_6038_UNIT} ELSE sta \ {STA_6038_UNIT}

SECT_6038 == 8
SURF_6038 == 1
CYL_6038  == 77

\* linear block address of (cylinder, surface, sector)
DKT_GET_SA(cy, sf, sc) == ((cy * SURF_6038) + sf) * SECT_6038 + sc

dkt_rwait  == 100
dkt_settle == 10
dkt_step   == 1

DKT_SIM_SECTORTIME == 500
DKT_SIM_ADDRTIME   == 5
DKT_SIM_DATATIME   == 490

\* the first bytes of the program load ROM
progload_rom_6038 == <<0, 7, 255, 192>>

DktUnits == 0..(DKT_NUMDR - 1)

DktState ==
    [sc |-> dkt_6038_sc, ma |-> dkt_6038_ma, ca |-> dkt_6038_ca,
     rom |-> dkt_6038_progload_romaddr, sta |-> dkt_sta,
     busy |-> dkt_busy, done |-> dkt_done,
     unit |-> dkt_unit, due |-> dkt_due, twice |-> dkt_twice,
     mem |-> M, file |-> dkt_file]

\* (variant: the general error bit is left to the places that set a
\* specific one)
dkt_general_error_left_out(s) == s

\* if (dkt_sta & STA_FLGS_GENERAL_ERROR) dkt_sta |= STA_6038_ERROR
dkt_general_error(s) ==
    IF s.sta \cap STA_FLGS_GENERAL_ERROR # {}
    THEN [s EXCEPT !.sta = @ \cup {STA_6038_ERROR}] ELSE s

----------------------------------------------------------------------------
(* Floppy: dkt_go, the command dispatcher (micronova_dkt.c 456-544).       *)
(* Result: [s |-> the state after, ok |-> the value returned].             *)

\* variant: a dispatcher that does not look at the attach flag
dkt_go_refuses_active(s, u) == sim_is_active(s, u)

\* the dispatcher refuses a unit that is not attached or has an event queued
dkt_go_refuses(s, u) == (~s.unit[u].att) \/ sim_is_active(s, u)

dkt_go(s0) ==
    LET s   == [s0 EXCEPT !.sta = @ \ DKT_STA_EFLGS]
        u   == SC_6038_GET_UNIT(s.sc)
        cmd == SC_6038_GET_CMD(s.sc)
        s1  == [s EXCEPT !.unit[u].FUNC = cmd]
    IN  IF dkt_go_refuses(s, u)
        THEN [s |-> [s EXCEPT !.sta = @ \cup {STA_6038_ERROR}], ok |-> FALSE]
        ELSE IF cmd = SC_6038_SETTLE
        THEN [s |-> sim_activate(s1, u, dkt_settle), ok |-> TRUE]
        ELSE IF cmd \in {SC_6038_STEPIN, SC_6038_STEPOUT}
        THEN [s |-> sim_activate(s1, u, dkt_step), ok |-> TRUE]
        ELSE IF cmd \in {SC_6038_FORMAT0, SC_6038_FORMATNEXT}
        THEN IF s1.unit[u].wprt
             THEN \* dkt_sta & STA_6038_WRITEPROT: an AND, every other bit goes
                  [s |-> [s1 EXCEPT !.sta = @ \cap {STA_6038_WRITEPROT}],
                   ok |-> FALSE]
             ELSE [s |-> sim_activate(s1, u, dkt_rwait), ok |-> TRUE]
        \* read preamble, read next, write next and every other code:
        \* nothing is scheduled here
        ELSE [s |-> s1, ok |-> TRUE]

----------------------------------------------------------------------------
(* Floppy: dkt, the IOT routine (micronova_dkt.c 332-454).                 *)
(* Result: [s |-> the state after, rval |-> the word returned,             *)
(*          ok |-> "active" (start refused, the selected unit has an       *)
(*                 event), the dispatcher's verdict "ok" / "fail",         *)
(*                 "cancel" (the clear pulse removed a queued event), or   *)
(*                 "none"].                                                *)

\* case ioDOA under a start pulse
dkt_start_doa(s, AC) ==
    LET u    == SC_6038_GET_UNIT(s.sc)
        newu == SC_6038_GET_UNIT(AC)
        s1   == IF newu # u
                THEN [s EXCEPT !.sta = STA_6038_SET_UNIT(@, newu),
                               !.ca  = CA_6038_SETADDR(s.unit[newu].CYL,
                                                       s.unit[newu].SECT)]
                ELSE s
        r    == dkt_go([s1 EXCEPT !.sc = AC])
    IN  IF r.ok THEN [s |-> r.s, rval |-> 0, ok |-> "ok"]
        ELSE [s |-> [r.s EXCEPT !.busy = FALSE, !.done = TRUE],
              rval |-> 0, ok |-> "fail"]

\* variant: a start pulse that sets busy and leaves done as it is
dkt_start_flags_keep_done(s) ==
    [s EXCEPT !.sta = @ \ STA_FLGS_SCLR, !.busy = TRUE]

\* a start pulse clears the error flags, sets busy and clears done
dkt_start_flags(s) ==
    [s EXCEPT !.sta = @ \ STA_FLGS_SCLR, !.busy = TRUE, !.done = FALSE]

\* case iopS
dkt_start(s, code, AC) ==
    LET u  == SC_6038_GET_UNIT(s.sc)
        s1 == dkt_start_flags(s)
    IN  IF sim_is_active(s, u)
        THEN [s |-> [s EXCEPT !.sta = @ \cup {STA_6038_ERROR}],
              rval |-> 0, ok |-> "active"]
        ELSE IF code = ioNIO
        THEN [s |-> [s1 EXCEPT !.busy = FALSE, !.done = TRUE, !.rom = 0],
              rval |-> 0, ok |-> "none"]
        ELSE IF code = ioDIA
        THEN [s |-> [s1 EXCEPT !.busy = FALSE, !.done = TRUE, !.rom = @ + 1],
              rval |-> progload_rom_6038[s.rom + 1], ok |-> "none"]
        ELSE IF code = ioDOA THEN dkt_start_doa(s1, AC)
        ELSE [s |-> s1, rval |-> 0, ok |-> "none"]

\* variant: the clear pulse leaves the selected unit's event queued
dkt_other_keeps_event(s, pulse, code, AC) ==
    LET s1 == IF code = ioDOB
              THEN [s EXCEPT !.ma = Low(AC, MA_6038_M_ADDR)] ELSE s
        rv == IF code = ioDIA THEN Word(s.sta)
              ELSE IF code = ioDIB THEN Low(s.ma, MA_6038_M_ADDR)
              ELSE IF code = ioDIC THEN s.ca
              ELSE 0
    IN  [s |-> IF pulse = iopC
               THEN [s1 EXCEPT !.busy = FALSE, !.done = FALSE,
                               !.sta = @ \ DKT_STA_EFLGS]
               ELSE s1,
         rval |-> rv,
         ok |-> "none"]


\* case iopC and default (no pulse, or the special pulse)
dkt_other(s, pulse, code, AC) ==
    LET s1 == IF code = ioDOB
              THEN [s EXCEPT !.ma = Low(AC, MA_6038_M_ADDR)] ELSE s
        rv == IF code = ioDIA THEN Word(s.sta)
              ELSE IF code = ioDIB THEN Low(s.ma, MA_6038_M_ADDR)
              ELSE IF code = ioDIC THEN s.ca
              ELSE 0
        u  == SC_6038_GET_UNIT(s1.sc)
    IN  [s |-> IF pulse = iopC
               THEN sim_cancel([s1 EXCEPT !.busy = FALSE, !.done = FALSE,
                                          !.sta = @ \ DKT_STA_EFLGS], u)
               ELSE s1,
         rval |-> rv,
         ok |-> IF pulse = iopC /\ sim_is_active(s1, u) THEN "cancel" ELSE "none"]

dkt(s, pulse, code, AC) ==
    LET r == IF pulse = iopS THEN dkt_start(s, code, AC)
             ELSE dkt_other(s, pulse, code, AC)
    IN  [r EXCEPT !.s = dkt_general_error(r.s)]

----------------------------------------------------------------------------
(* Floppy: dkt_svc, the unit service routine (micronova_dkt.c 547-658).    *)
(* fail: "none", or the call that reports an error: "seek" (fseek) or      *)
(* "io" (ferror after the read or the write).                              *)
(* Result: [s |-> the state after, rval |-> the status returned,           *)
(*          n |-> the number of sectors transferred,                       *)
(*          w |-> the number of fxwrite calls on the backing file].        *)

\* for (dx = 0; dx < DKT_NUMWD; dx++) { pa = MapAddr(0, (dkt_6038_ma & AMASK));
\*     if (MEM_ADDR_OK(pa)) M[pa] = tbuf[dx];
\*     dkt_6038_ma = (dkt_6038_ma + 1) & AMASK; }
\* the memory after the loop: word pa takes tbuf[dx] for the dx, if there is
\* one below DKT_NUMWD, whose address ma + dx (mod 32K) maps to pa
dkt_to_memory(mem, ma, file, sa) ==
    [pa \in DOMAIN mem |->
        LET dx == (pa + AMASK + 1 - ma) % (AMASK + 1)
        IN  IF /\ dx < DKT_NUMWD
               /\ MapAddr(0, Low(ma + dx, AMASK)) = pa
               /\ MEM_ADDR_OK(pa)
            THEN dhp_tbuf(file, sa, dx)
            ELSE mem[pa]]

\* for (dx = 0; dx < DKT_NUMWD; dx++) { pa = MapAddr(0, (dkt_6038_ma & AMASK));
\*     tbuf[dx] = M[pa];  dkt_6038_ma = (dkt_6038_ma + 1) & AMASK; }  fxwrite
\* the file after the write of block sa
dkt_from_memory(file, mem, ma, sa) ==
    [c \in DOMAIN file |->
        IF c[1] = sa
        THEN LET pa == MapAddr(0, Low(ma + c[2], AMASK))
             IN  IF pa \in DOMAIN mem THEN mem[pa] ELSE Unknown
        ELSE file[c]]

\* variant: the sector error is flagged and the transfer goes on (the break
\* after the flag is missing)
dkt_svc_xfer_no_break(s, u, fail) ==
    LET up    == s.unit[u]
        s1    == [s EXCEPT !.ca = CA_6038_SETADDR(up.CYL, up.SECT),
                           !.sta = IF up.SECT # SC_6038_GET_SECT(s.sc)
                                   THEN @ \cup {STA_6038_SECTORERR} ELSE @]
        sa    == DKT_GET_SA(up.CYL, 0, up.SECT)
        rd    == up.FUNC = SC_6038_READNEXT
        moved == [s1 EXCEPT
                    !.ma      = Low(@ + DKT_NUMWD, AMASK),
                    !.mem     = IF rd THEN dkt_to_memory(@, s1.ma, s1.file[u], sa)
                                ELSE @,
                    !.file[u] = IF rd THEN @
                                ELSE dkt_from_memory(@, s1.mem, s1.ma, sa)]
        spoilt == [moved EXCEPT !.file[u] = dhp_spoil(@, sa)]
        wr    == IF rd THEN 0 ELSE 1
    IN  IF fail = "seek"
        THEN [s |-> s1, rval |-> SCPE_IOERR, n |-> 0, w |-> 0]
        ELSE IF fail = "io"
        THEN [s |-> IF rd THEN s1 ELSE spoilt,
              rval |-> SCPE_IOERR, n |-> 0, w |-> wr]
        ELSE [s |-> moved, rval |-> SCPE_OK, n |-> 1, w |-> wr]

\* case SC_6038_READNEXT, SC_6038_WRITENEXT
dkt_svc_xfer(s, u, fail) ==
    LET up    == s.unit[u]
        s1    == [s EXCEPT !.ca = CA_6038_SETADDR(up.CYL, up.SECT)]
        sa    == DKT_GET_SA(up.CYL, 0, up.SECT)
        rd    == up.FUNC = SC_6038_READNEXT
        \* the 256 words are copied, and the memory address moves with them
        moved == [s1 EXCEPT
                    !.ma      = Low(@ + DKT_NUMWD, AMASK),
                    !.mem     = IF rd THEN dkt_to_memory(@, s1.ma, s1.file[u], sa)
                                ELSE @,
                    !.file[u] = IF rd THEN @
                                ELSE dkt_from_memory(@, s1.mem, s1.ma, sa)]
        \* a write that fails: what the file holds of the sector is not known
        spoilt == [moved EXCEPT !.file[u] = dhp_spoil(@, sa)]
        \* fxwrite is called when fseek reported no error
        wr    == IF up.FUNC = SC_6038_READNEXT THEN 0 ELSE 1
    IN  IF up.SECT # SC_6038_GET_SECT(s.sc)
        THEN [s |-> [s1 EXCEPT !.sta = @ \cup {STA_6038_SECTORERR}],
              rval |-> SCPE_OK, n |-> 0, w |-> 0]
        ELSE IF fail = "seek"
        THEN [s |-> s1, rval |-> SCPE_IOERR, n |-> 0, w |-> 0]
        ELSE IF fail = "io"
        THEN [s |-> IF rd THEN s1 ELSE spoilt,
              rval |-> SCPE_IOERR, n |-> 0, w |-> wr]
        ELSE [s |-> moved, rval |-> SCPE_OK, n |-> 1, w |-> wr]

\* variant: a step out that does not stop at cylinder 0
dkt_stepout_unclamped(cyl) == cyl - 1

\* case SC_6038_STEPOUT: if (uptr->CYL != 0) uptr->CYL--
dkt_stepout(cyl) == IF cyl # 0 THEN cyl - 1 ELSE cyl

\* switch (uptr->FUNC)
dkt_svc_func(s, u, fail) ==
    LET up == s.unit[u]
        r(t) == [s |-> t, rval |-> SCPE_OK, n |-> 0, w |-> 0]
    IN  IF up.FUNC = SC_6038_SETTLE
        THEN r([s EXCEPT !.sta = @ \cup {STA_6038_HEADON}])
        ELSE IF up.FUNC = SC_6038_STEPIN
        THEN r([s EXCEPT !.unit[u].CYL = @ + 1, !.sta = @ \ {STA_6038_TRACK0}])
        ELSE IF up.FUNC = SC_6038_STEPOUT
        THEN LET cyl == dkt_stepout(up.CYL)
             IN  r([s EXCEPT !.unit[u].CYL = cyl,
                             !.sta = IF cyl = 0 THEN @ \cup {STA_6038_TRACK0}
                                     ELSE @])
        ELSE IF up.FUNC = SC_6038_READPREAMB
        THEN r([s EXCEPT !.ca = CA_6038_SETADDR(up.CYL, up.SECT)])
        ELSE IF up.FUNC \in {SC_6038_READNEXT, SC_6038_WRITENEXT}
        THEN dkt_svc_xfer(s, u, fail)
        ELSE IF up.FUNC \in {SC_6038_FORMAT0, SC_6038_FORMATNEXT}
        THEN r(s)
        ELSE r([s EXCEPT !.sta = @ \cup {STA_6038_ILLEGAL, STA_6038_ERROR}])

dkt_svc(s, u, fail) ==
    LET f  == dkt_svc_func(s, u, fail)
        t  == [f.s EXCEPT !.sta = IF f.s.unit[u].CYL = 0
                                  THEN @ \cup {STA_6038_TRACK0}
                                  ELSE @ \ {STA_6038_TRACK0}]
    IN  [f EXCEPT !.s = [dkt_general_error(t) EXCEPT !.busy = FALSE,
                                                     !.done = TRUE]]

\* variant: a timer service that does not arm the timer again
dkt_tmrsvc_once(s) ==
    [s EXCEPT !.unit = [v \in DktUnits |->
                           [s.unit[v] EXCEPT !.SECT = Low(@ + 1, 7)]]]

\* variant: a timer service that schedules the armed unit without looking at
\* the busy flag
dkt_tmrsvc_ignores_busy(s) ==
    LET s1 == [s EXCEPT !.unit = [v \in DktUnits |->
                  [s.unit[v] EXCEPT !.SECT = Low(@ + 1, 7)]]]
        u  == SC_6038_GET_UNIT(s1.sc)
        f  == s1.unit[u].FUNC
        s2 == IF ~sim_is_active(s1, u)
              THEN IF f = SC_6038_READPREAMB
                   THEN sim_activate(s1, u, DKT_SIM_ADDRTIME)
                   ELSE IF f \in {SC_6038_READNEXT, SC_6038_WRITENEXT}
                   THEN sim_activate(s1, u, DKT_SIM_ADDRTIME + DKT_SIM_DATATIME)
                   ELSE s1
              ELSE s1
    IN  sim_activate(s2, DKT_TIMER, DKT_SIM_SECTORTIME)

\* variant: a timer service that turns the selected drive only
dkt_tmrsvc_selected_only(s) ==
    LET u  == SC_6038_GET_UNIT(s.sc)
        s1 == [s EXCEPT !.unit[u].SECT = Low(@ + 1, 7)]
        f  == s1.unit[u].FUNC
        s2 == IF s1.busy /\ ~sim_is_active(s1, u)
              THEN IF f = SC_6038_READPREAMB
                   THEN sim_activate(s1, u, DKT_SIM_ADDRTIME)
                   ELSE IF f \in {SC_6038_READNEXT, SC_6038_WRITENEXT}
                   THEN sim_activate(s1, u, DKT_SIM_ADDRTIME + DKT_SIM_DATATIME)
                   ELSE s1
              ELSE s1
    IN  sim_activate(s2, DKT_TIMER, DKT_SIM_SECTORTIME)

\* variant: a timer service that allows a whole sector time for the data
dkt_tmrsvc_whole_sector(s) ==
    LET s1 == [s EXCEPT !.unit = [v \in DktUnits |->
                  [s.unit[v] EXCEPT !.SECT = Low(@ + 1, 7)]]]
        u  == SC_6038_GET_UNIT(s1.sc)
        f  == s1.unit[u].FUNC
        s2 == IF s1.busy /\ ~sim_is_active(s1, u)
              THEN IF f = SC_6038_READPREAMB
                   THEN sim_activate(s1, u, DKT_SIM_ADDRTIME)
                   ELSE IF f \in {SC_6038_READNEXT, SC_6038_WRITENEXT}
                   THEN sim_activate(s1, u, DKT_SIM_ADDRTIME + DKT_SIM_SECTORTIME)
                   ELSE s1
              ELSE s1
    IN  sim_activate(s2, DKT_TIMER, DKT_SIM_SECTORTIME)

\* dkt_tmrsvc, the rotation timer (micronova_dkt.c 667-707)
dkt_tmrsvc(s) ==
    LET s1 == [s EXCEPT !.unit = [v \in DktUnits |->
                  [s.unit[v] EXCEPT !.SECT = Low(@ + 1, 7)]]]
        u  == SC_6038_GET_UNIT(s1.sc)
        f  == s1.unit[u].FUNC
        s2 == IF s1.busy /\ ~sim_is_active(s1, u)
              THEN IF f = SC_6038_READPREAMB
                   THEN sim_activate(s1, u, DKT_SIM_ADDRTIME)
                   ELSE IF f \in {SC_6038_READNEXT, SC_6038_WRITENEXT}
                   THEN sim_activate(s1, u, DKT_SIM_ADDRTIME + DKT_SIM_DATATIME)
                   ELSE s1
              ELSE s1
    IN  sim_activate(s2, DKT_TIMER, DKT_SIM_SECTORTIME)

\* variant: a reset that does not cancel the timer before it arms it
dkt_reset_keeps_timer(s) ==
    sim_activate(
        [s EXCEPT !.busy = FALSE, !.done = FALSE,
                  !.sc = 0, !.ma = 0, !.ca = 0, !.rom = 0, !.sta = {},
                  !.due  = [v \in 0..DKT_TIMER |->
                               IF v = DKT_TIMER THEN s.due[v] ELSE Idle],
                  !.unit = [v \in DktUnits |->
                               [s.unit[v] EXCEPT !.CYL = 0, !.SECT = 0,
                                                 !.FUNC = 0]]],
        DKT_TIMER, DKT_SIM_SECTORTIME)


\* dkt_reset (micronova_dkt.c 713-732)
dkt_reset(s) ==
    sim_activate(
        [s EXCEPT !.busy = FALSE, !.done = FALSE,
                  !.sc = 0, !.ma = 0, !.ca = 0, !.rom = 0, !.sta = {},
                  !.due  = [v \in 0..DKT_TIMER |-> Idle],
                  !.unit = [v \in DktUnits |->
                               [s.unit[v] EXCEPT !.CYL = 0, !.SECT = 0,
                                                 !.FUNC = 0]]],
        DKT_TIMER, DKT_SIM_SECTORTIME)

----------------------------------------------------------------------------
(* Floppy: the inputs the model draws from, and the actions *)

\* the repertoires of the floppy
DktProgs ==
    {"dkt.step", "dkt.boot", "dkt.xfer", "dkt.fmt",
     "dkt.far", "dkt.lock", "dkt.read", "dkt.arm", "dkt.data"}

\* the repertoires that run side by side; "dkt.far", a program that walks the
\* head across the whole disk, "dkt.lock", one that writes a disk the
\* operator locks, "dkt.read", one that only reads, "dkt.arm", one that
\* uses both drives, and "dkt.data", one whose data the run follows, each run
\* on their own
DktShortProgs ==
    DktProgs \ {"dkt.far", "dkt.lock", "dkt.read", "dkt.arm", "dkt.data"}

\* a DOA word: unit, sector, command
DktDoaWord(u, sect, cmd) ==
    u * (2^SC_6038_V_UNIT) + sect * (2^SC_6038_V_SECTOR) + cmd

\* a command code the controller does not know
DktBadCmd == 3

\* "dkt.step": settle, step in and out, and an unknown command;
\* "dkt.boot": the program load: settle, and the ROM is read;
\* "dkt.xfer": read preamble, read and write sector 1;
\* "dkt.fmt":  format, first and next sector;
\* "dkt.far":  step in and out;
\* "dkt.lock": format and write sector 1;
\* "dkt.read": read sector 1;
\* "dkt.arm":  read preamble and read sector 1 of drive 0, and settle the
\*             head of drive 1;
\* "dkt.data": read and write sector 1, on a 16K machine, with a buffer that
\*             begins at the last address and wraps to the first
DktDoaAC ==
    IF prog = "dkt.step"
    THEN {DktDoaWord(0, 0, c) :
             c \in {SC_6038_SETTLE, SC_6038_STEPIN, SC_6038_STEPOUT, DktBadCmd}}
    ELSE IF prog = "dkt.boot"
    THEN {DktDoaWord(0, 0, SC_6038_SETTLE)}
    ELSE IF prog = "dkt.xfer"
    THEN {DktDoaWord(0, 1, c) :
             c \in {SC_6038_READPREAMB, SC_6038_READNEXT, SC_6038_WRITENEXT}}
    ELSE IF prog = "dkt.fmt"
    THEN {DktDoaWord(0, 0, c) : c \in {SC_6038_FORMAT0, SC_6038_FORMATNEXT}}
    ELSE IF prog = "dkt.far"
    THEN {DktDoaWord(0, 0, c) : c \in {SC_6038_STEPIN, SC_6038_STEPOUT}}
    ELSE IF prog = "dkt.lock"
    THEN {DktDoaWord(0, 0, SC_6038_FORMAT0),
          DktDoaWord(0, 1, SC_6038_WRITENEXT)}
    ELSE IF prog = "dkt.arm"
    THEN {DktDoaWord(0, 1, c) : c \in {SC_6038_READPREAMB, SC_6038_READNEXT}}
            \cup {DktDoaWord(1, 0, SC_6038_SETTLE)}
    ELSE IF prog = "dkt.data"
    THEN {DktDoaWord(0, 1, c) : c \in {SC_6038_READNEXT, SC_6038_WRITENEXT}}
    ELSE {DktDoaWord(0, 1, SC_6038_READNEXT)}

\* a DOB word: the last page of memory (bit 0 is not part of the address)
\* when the program transfers, else the first
DktDobAC ==
    IF prog \in {"dkt.xfer", "dkt.read", "dkt.arm"} THEN {65280}
    ELSE IF prog = "dkt.data" THEN {AMASK}
    ELSE {0}

\* the repertoire has a command that tests the write lock
DktWrites ==
    \E w \in DktDoaAC :
        SC_6038_GET_CMD(w) \in {SC_6038_FORMAT0, SC_6038_FORMATNEXT}

\* a start pulse is given with the memory address as the program loaded it
DktMaLoaded == {Low(a, MA_6038_M_ADDR) : a \in DktDobAC}

\* the units the repertoire addresses
DktProgUnits == {SC_6038_GET_UNIT(w) : w \in DktDoaAC}

DktAC(code) ==
    IF code = ioDOA THEN DktDoaAC
    ELSE IF code = ioDOB THEN DktDobAC
    ELSE {0}

\* the program steps the head in up to this cylinder
MaxCyl == 1

\* and the program that walks the head across the disk, up to this one
MaxFar == 77

DktStepLimit == IF prog = "dkt.far" THEN MaxFar ELSE MaxCyl

\* the program reads this many bytes of the program load ROM
MaxRom == 2

\* the outcomes of the backing file's calls
DktFails == {"none", "seek", "io"}

\* as NoOp, and doa: the opcode of an "iot" was DOA, the specify command
DktNoOp == [op |-> "init", pulse |-> iopN, doa |-> FALSE, ok |-> "none", n |-> 0,
            w |-> 0]

DktSet(s) ==
    /\ dkt_6038_sc' = s.sc
    /\ dkt_6038_ma' = s.ma
    /\ dkt_6038_ca' = s.ca
    /\ dkt_6038_progload_romaddr' = s.rom
    /\ dkt_sta' = s.sta
    /\ dkt_busy' = s.busy
    /\ dkt_done' = s.done
    /\ dkt_unit' = s.unit
    /\ dkt_due' = s.due
    /\ dkt_twice' = s.twice
    /\ dkt_file' = s.file

DktEventDue == \E v \in 0..DKT_TIMER : dkt_due[v] = 0

\* the state dkt_reset leaves at power-up
DktInit ==
    /\ dkt_6038_sc = 0
    /\ dkt_6038_ma = 0
    /\ dkt_6038_ca = 0
    /\ dkt_6038_progload_romaddr = 0
    /\ dkt_sta = {}
    /\ dkt_busy = FALSE
    /\ dkt_done = FALSE
    /\ dkt_unit = [u \in DktUnits |->
                      [FUNC |-> 0, CYL |-> 0, SECT |-> 0,
                       att |-> FALSE, wprt |-> FALSE]]
    /\ dkt_due = [v \in 0..DKT_TIMER |->
                     IF v = DKT_TIMER THEN DKT_SIM_SECTORTIME ELSE Idle]
    /\ dkt_twice = FALSE
    /\ dkt_file = [u \in DktUnits |-> [c \in {} |-> 0]]

\* one I/O instruction addressed to the controller
DktIot(pulse, code, AC) ==
    /\ prog \in DktProgs
    /\ last = DktNoOp
    /\ ~DktEventDue
    \* the program issues its instructions right after a rotation tick
    /\ dkt_due[DKT_TIMER] = DKT_SIM_SECTORTIME
    /\ pulse = iopS => dkt_6038_ma \in DktMaLoaded
    /\ (pulse = iopS /\ code = ioDIA)
          => prog = "dkt.boot" /\ dkt_6038_progload_romaddr < MaxRom
    /\ (pulse = iopS /\ code = ioDOA /\ SC_6038_GET_CMD(AC) = SC_6038_STEPIN)
          => dkt_unit[SC_6038_GET_UNIT(AC)].CYL < DktStepLimit
    /\ LET r == dkt(DktState, pulse, code, AC)
       IN  /\ DktSet(r.s)
           /\ last' = [op |-> "iot", pulse |-> pulse, doa |-> (code = ioDOA),
                       ok |-> r.ok, n |-> 0, w |-> 0]
    /\ UNCHANGED <<prog, dhpVars>>

\* the event of unit u fires
DktSvc(u, fail) ==
    /\ prog \in DktProgs
    /\ last = DktNoOp
    /\ dkt_due[u] = 0
    /\ LET r == dkt_svc([DktState EXCEPT !.due[u] = Idle], u, fail)
       IN  /\ DktSet(r.s)
           /\ M' = r.s.mem
           /\ last' = [DktNoOp EXCEPT !.op = "svc", !.n = r.n, !.w = r.w]
    /\ UNCHANGED <<prog, dhp_ma, dhp_map, dhp_ussc, dhp_fccy, dhp_sta, dhp_busy,
                   dhp_done, dhp_unit, dhp_due, dhp_twice, dhp_file, dhp_wlog>>

\* the rotation timer fires
DktTmrSvc ==
    /\ prog \in DktProgs
    /\ last = DktNoOp
    /\ dkt_due[DKT_TIMER] = 0
    /\ DktSet(dkt_tmrsvc([DktState EXCEPT !.due[DKT_TIMER] = Idle]))
    /\ last' = [DktNoOp EXCEPT !.op = "tick"]
    /\ UNCHANGED <<prog, dhpVars>>

\* simulated time passes until the next event is due
DktElapse ==
    /\ prog \in DktProgs
    /\ last = DktNoOp
    /\ ~DktEventDue
    /\ \E v \in 0..DKT_TIMER : dkt_due[v] # Idle
    /\ LET d == Min({dkt_due[v] : v \in {w \in 0..DKT_TIMER : dkt_due[w] # Idle}})
       IN  dkt_due' = [v \in 0..DKT_TIMER |->
                          IF dkt_due[v] = Idle THEN Idle ELSE dkt_due[v] - d]
    /\ last' = [DktNoOp EXCEPT !.op = "env"]
    /\ UNCHANGED <<prog, dhpVars, dkt_6038_sc, dkt_6038_ma, dkt_6038_ca,
                   dkt_6038_progload_romaddr, dkt_sta, dkt_busy, dkt_done,
                   dkt_unit, dkt_twice, dkt_file>>

\* the device reset
DktReset ==
    /\ prog \in DktProgs
    /\ last = DktNoOp
    /\ DktSet(dkt_reset(DktState))
    /\ last' = [DktNoOp EXCEPT !.op = "reset"]
    /\ UNCHANGED <<prog, dhpVars>>

\* the operator attaches or detaches a unit's file while the controller is
\* idle (dkt_svc uses the file without testing UNIT_ATT)
DktAttach(u) ==
    /\ prog \in DktProgs
    /\ last = DktNoOp
    /\ ~dkt_busy
    /\ dkt_due[u] = Idle
    /\ dkt_unit' = [dkt_unit EXCEPT ![u].att = ~@]
    /\ last' = [DktNoOp EXCEPT !.op = "env"]
    /\ UNCHANGED <<prog, dhpVars, dkt_6038_sc, dkt_6038_ma, dkt_6038_ca,
                   dkt_6038_progload_romaddr, dkt_sta, dkt_busy, dkt_done,
                   dkt_due, dkt_twice, dkt_file>>

\* the operator flips the write lock of a unit the program formats
DktWriteLock(u) ==
    /\ prog \in DktProgs
    /\ last = DktNoOp
    /\ DktWrites
    /\ dkt_unit' = [dkt_unit EXCEPT ![u].wprt = ~@]
    /\ last' = [DktNoOp EXCEPT !.op = "env"]
    /\ UNCHANGED <<prog, dhpVars, dkt_6038_sc, dkt_6038_ma, dkt_6038_ca,
                   dkt_6038_progload_romaddr, dkt_sta, dkt_busy, dkt_done,
                   dkt_due, dkt_twice, dkt_file>>

\* the call returns to the simulator's loop, which makes the next one
DktReturn ==
    /\ prog \in DktProgs
    /\ last # DktNoOp
    /\ last' = DktNoOp
    /\ UNCHANGED <<prog, dhpVars, dktVars>>

DktNext ==
    \/ \E pulse \in Pulses, code \in Codes :
          \E AC \in DktAC(code) : DktIot(pulse, code, AC)
    \/ \E u \in DktUnits, fail \in DktFails : DktSvc(u, fail)
    \/ DktTmrSvc
    \/ DktElapse
    \/ DktReset
    \/ \E u \in DktProgUnits : DktAttach(u)
    \/ \E u \in DktProgUnits : DktWriteLock(u)
    \/ DktReturn

----------------------------------------------------------------------------
(* The specifications *)

vars == <<prog, last, dhpVars, dktVars>>

Init ==
    /\ prog \in DhpShortProgs \cup DktShortProgs
    /\ last = IF prog \in DhpProgs THEN NoOp ELSE DktNoOp
    /\ DhpInit
    /\ DktInit

Next == DhpNext \/ DktNext

\* either controller, with any repertoire
Spec == Init /\ [][Next]_vars

\* the hard disk alone
InitDhp == Init /\ prog \in DhpProgs
SpecDhp == InitDhp /\ [][DhpNext]_vars

\* the hard disk under the program that selects a second unit: every
\* instruction, the reset, the operator mounting the disk, the event queue
DhpSelNext ==
    \/ \E pulse \in Pulses, code \in Codes :
          \E AC \in DhpAC(code) : DhpIot(pulse, code, AC)
    \/ \E u \in DhpUnits, failAt \in 0..MaxFail : DhpSvc(u, failAt)
    \/ DhpElapse
    \/ DhpReset
    \/ \E u \in DhpAttachable : DhpAttach(u)
    \/ DhpReturn

InitDhpSel ==
    /\ prog = "dhp.sel"
    /\ last = NoOp
    /\ DhpInit
    /\ DktInit
SpecDhpSel == InitDhpSel /\ [][DhpSelNext]_vars

\* the hard disk under the program that writes its buffer and reads it
\* back: the registers loaded, commands given with a start pulse, the buffer
\* filled and cleared, and the event queue
DhpDataNext ==
    \/ \E code \in {ioDOA, ioDOB, ioDOC} :
          \E AC \in DhpAC(code) : DhpIot(iopN, code, AC)
    \/ DhpIot(iopS, ioNIO, 0)
    \/ \E fill \in BOOLEAN : DhpStore(fill)
    \/ \E u \in DhpUnits : DhpSvc(u, 0)
    \/ DhpElapse
    \/ DhpReturn

\* (the disk is mounted before the program runs, and the file does not fail)
InitDhpData ==
    /\ prog = "dhp.data"
    /\ last = NoOp
    /\ dhp_ma = 0
    /\ dhp_map = 0
    /\ dhp_ussc = 0
    /\ dhp_fccy = 0
    /\ dhp_sta = {}
    /\ dhp_busy = FALSE
    /\ dhp_done = FALSE
    /\ dhp_unit = [u \in DhpUnits |->
                      [FUNC |-> 0, CYL |-> 0, att |-> u = 0, wprt |-> FALSE]]
    /\ dhp_due = [u \in DhpUnits |-> Idle]
    /\ dhp_twice = FALSE
    /\ M = [a \in DhpTracked |-> 0]
    /\ dhp_file = [u \in DhpUnits |-> [c \in DhpCells |-> 0]]
    /\ dhp_wlog = DhpNoWrite
    /\ DktInit
SpecDhpData == InitDhpData /\ [][DhpDataNext]_vars

\* "dhp.edge" on its own: the disk is mounted, every word of its first block
\* is different, and the file does not fail
InitDhpEdge ==
    /\ prog = "dhp.edge"
    /\ last = NoOp
    /\ dhp_ma = 0
    /\ dhp_map = 0
    /\ dhp_ussc = 0
    /\ dhp_fccy = 0
    /\ dhp_sta = {}
    /\ dhp_busy = FALSE
    /\ dhp_done = FALSE
    /\ dhp_unit = [u \in DhpUnits |->
                      [FUNC |-> 0, CYL |-> 0, att |-> u = 0, wprt |-> FALSE]]
    /\ dhp_due = [u \in DhpUnits |-> Idle]
    /\ dhp_twice = FALSE
    /\ M = [a \in DhpTracked |-> 0]
    /\ dhp_file = [u \in DhpUnits |-> [c \in DhpCells |-> 1000 + c[2]]]
    /\ dhp_wlog = DhpNoWrite
    /\ DktInit

\* the floppy alone
InitDkt == Init /\ prog \in DktProgs
SpecDkt == InitDkt /\ [][DktNext]_vars

\* the floppy with no clear pulse and no reset, and a simulator that keeps
\* running: calls return, time passes, and an event that is due is serviced
DktLiveNext ==
    \/ \E pulse \in Pulses \ {iopC}, code \in Codes :
          \E AC \in DktAC(code) : DktIot(pulse, code, AC)
    \/ \E u \in DktUnits, fail \in DktFails : DktSvc(u, fail)
    \/ DktTmrSvc
    \/ DktElapse
    \/ \E u \in DktProgUnits : DktAttach(u)
    \/ DktReturn

InitDktLive == Init /\ prog = "dkt.step"
SpecDktLive ==
    /\ InitDktLive
    /\ [][DktLiveNext]_vars
    /\ WF_vars(DktReturn)
    /\ WF_vars(DktElapse)
    /\ WF_vars(DktTmrSvc)
    /\ \A u \in DktUnits : WF_vars(\E fail \in DktFails : DktSvc(u, fail))

\* the floppy after its reset, under any instruction, the clear pulse
\* included, and a simulator that keeps running: time cannot stand still for
\* ever, whatever the program and the operator do in between, and an event
\* that is due is serviced
DktRunNext ==
    \/ \E pulse \in Pulses, code \in Codes :
          \E AC \in DktAC(code) : DktIot(pulse, code, AC)
    \/ \E u \in DktUnits, fail \in DktFails : DktSvc(u, fail)
    \/ DktTmrSvc
    \/ DktElapse
    \/ \E u \in DktProgUnits : DktAttach(u)
    \/ DktReturn

InitDktRun == Init /\ prog = "dkt.step"
SpecDktRun ==
    /\ InitDktRun
    /\ [][DktRunNext]_vars
    /\ WF_vars(DktReturn)
    /\ SF_vars(DktElapse)
    /\ SF_vars(DktTmrSvc)
    /\ \A u \in DktUnits : SF_vars(\E fail \in DktFails : DktSvc(u, fail))

\* the floppy under a program that reads and leaves each command to end: it
\* loads the memory address, gives its specify commands with a start pulse
\* and nothing else, and the simulator keeps running
DktReadNext ==
    \/ \E AC \in DktAC(ioDOA) : DktIot(iopS, ioDOA, AC)
    \/ \E AC \in DktAC(ioDOB) : DktIot(iopN, ioDOB, AC)
    \/ \E u \in DktUnits, fail \in DktFails : DktSvc(u, fail)
    \/ DktTmrSvc
    \/ DktElapse
    \/ \E u \in DktProgUnits : DktAttach(u)
    \/ DktReturn

InitDktRead ==
    /\ prog = "dkt.read"
    /\ last = DktNoOp
    /\ DhpInit
    /\ DktInit
SpecDktRead ==
    /\ InitDktRead
    /\ [][DktReadNext]_vars
    /\ WF_vars(DktReturn)
    /\ SF_vars(DktElapse)
    /\ SF_vars(DktTmrSvc)
    /\ \A u \in DktUnits : SF_vars(\E fail \in DktFails : DktSvc(u, fail))

\* the floppy under the program that walks the head: specify commands given
\* with a start pulse, the operator mounting the disk, and the event queue
DktFarNext ==
    \/ \E AC \in DktAC(ioDOA) : DktIot(iopS, ioDOA, AC)
    \/ \E u \in DktUnits, fail \in DktFails : DktSvc(u, fail)
    \/ DktTmrSvc
    \/ DktElapse
    \/ \E u \in DktProgUnits : DktAttach(u)
    \/ DktReturn

\* the floppy under the program that uses both drives: the specify command
\* and the memory address, each with a start pulse, a clear pulse or none,
\* the reset, the operator mounting either disk, and the event queue
DktArmNext ==
    \/ \E pulse \in {iopN, iopS, iopC}, code \in {ioDOA, ioDOB} :
          \E AC \in DktAC(code) : DktIot(pulse, code, AC)
    \/ \E u \in DktUnits, fail \in DktFails : DktSvc(u, fail)
    \/ DktTmrSvc
    \/ DktElapse
    \/ DktReset
    \/ \E u \in DktProgUnits : DktAttach(u)
    \/ DktReturn

InitDktArm ==
    /\ prog = "dkt.arm"
    /\ last = DktNoOp
    /\ DhpInit
    /\ DktInit
SpecDktArm == InitDktArm /\ [][DktArmNext]_vars

\* the floppy under the program whose data the run follows: the specify
\* command and the memory address, with a start pulse or none, and the event
\* queue.  The disk is mounted in drive 0 before the program runs.  The run
\* follows the first two words and the last word of the buffer (addresses
\* 32767, 0 and 254), the word after it, and those words of block 1; every
\* memory word holds its own pattern and the file another.
DktDataNext ==
    \/ \E pulse \in {iopN, iopS}, code \in {ioDOA, ioDOB} :
          \E AC \in DktAC(code) : DktIot(pulse, code, AC)
    \/ \E u \in DktUnits, fail \in DktFails : DktSvc(u, fail)
    \/ DktTmrSvc
    \/ DktElapse
    \/ DktReturn

InitDktData ==
    /\ prog = "dkt.data"
    /\ last = DktNoOp
    /\ dhp_ma = 0 /\ dhp_map = 0 /\ dhp_ussc = 0 /\ dhp_fccy = 0
    /\ dhp_sta = {} /\ dhp_busy = FALSE /\ dhp_done = FALSE
    /\ dhp_unit = [u \in DhpUnits |->
                      [FUNC |-> 0, CYL |-> 0, att |-> FALSE, wprt |-> FALSE]]
    /\ dhp_due = [u \in DhpUnits |-> Idle]
    /\ dhp_twice = FALSE
    /\ dhp_file = [u \in DhpUnits |-> [c \in {} |-> 0]]
    /\ dhp_wlog = DhpNoWrite
    /\ M = [a \in {AMASK, 0, DKT_NUMWD - 2, DKT_NUMWD - 1} |-> DhpPattern(a)]
    /\ dkt_6038_sc = 0 /\ dkt_6038_ma = 0 /\ dkt_6038_ca = 0
    /\ dkt_6038_progload_romaddr = 0
    /\ dkt_sta = {} /\ dkt_busy = FALSE /\ dkt_done = FALSE
    /\ dkt_unit = [u \in DktUnits |->
                      [FUNC |-> 0, CYL |-> 0, SECT |-> 0,
                       att |-> u = 0, wprt |-> FALSE]]
    /\ dkt_due = [v \in 0..DKT_TIMER |->
                     IF v = DKT_TIMER THEN DKT_SIM_SECTORTIME ELSE Idle]
    /\ dkt_twice = FALSE
    /\ dkt_file = [u \in DktUnits |->
                      [c \in {<<1, 0>>, <<1, 1>>, <<1, DKT_NUMWD - 1>>}
                          |-> 1000 + c[2]]]
SpecDktData == InitDktData /\ [][DktDataNext]_vars

\* the two programs that read a sector to the end of a 16K memory
InitEdge == InitDhpEdge \/ InitDktData
EdgeNext == DhpDataNext \/ DktDataNext
SpecEdge == InitEdge /\ [][EdgeNext]_vars

\* the floppy under the program that writes a disk the operator locks
InitDktLock ==
    /\ prog = "dkt.lock"
    /\ last = DktNoOp
    /\ DhpInit
    /\ DktInit
SpecDktLock == InitDktLock /\ [][DktNext]_vars

InitDktFar ==
    /\ prog = "dkt.far"
    /\ last = DktNoOp
    /\ DhpInit
    /\ DktInit
SpecDktFar == InitDktFar /\ [][DktFarNext]_vars

\* the linear block address on its own: the triples of a drive type are gone
\* through in the order cylinder, surface, sector, from the first triple of
\* any cylinder on, and GET_SA is applied to each; n counts the in-range
\* triples before it (cy whole cylinders before the first triple of cy)
GeoProgs == {"dhp.geo", "dkt.geo"}

drv_tab ==
    IF prog = "dhp.geo"
    THEN [sect |-> SECT_6095, surf |-> SURF_6095, cyl |-> CYL_6095]
    ELSE [sect |-> SECT_6038, surf |-> SURF_6038, cyl |-> CYL_6038]

GET_SA(cy, sf, sc) ==
    IF prog = "dhp.geo" THEN DHP_GET_SA(cy, sf, sc) ELSE DKT_GET_SA(cy, sf, sc)

GeoAt(cy, sf, sc, n) ==
    [op |-> "sa", cy |-> cy, sf |-> sf, sc |-> sc, sa |-> GET_SA(cy, sf, sc),
     n |-> n]

\* the next sector of the surface, else the first sector of the next surface,
\* else the first sector of the next cylinder
GeoStep ==
    /\ prog \in GeoProgs
    /\ \E cy \in {last.cy, last.cy + 1} \cap 0..(drv_tab.cyl - 1),
          sf \in 0..(drv_tab.surf - 1), sc \in 0..(drv_tab.sect - 1) :
          /\ \/ cy = last.cy /\ sf = last.sf /\ sc = last.sc + 1
             \/ /\ cy = last.cy /\ sf = last.sf + 1 /\ sc = 0
                /\ last.sc = drv_tab.sect - 1
             \/ /\ cy = last.cy + 1 /\ sf = 0 /\ sc = 0
                /\ last.sf = drv_tab.surf - 1 /\ last.sc = drv_tab.sect - 1
          /\ last' = GeoAt(cy, sf, sc, last.n + 1)
    /\ UNCHANGED <<prog, dhpVars, dktVars>>

InitGeo ==
    /\ prog \in GeoProgs
    /\ \E cy \in 0..(drv_tab.cyl - 1) :
          last = GeoAt(cy, 0, 0, cy * drv_tab.surf * drv_tab.sect)
    /\ DhpInit
    /\ DktInit
SpecGeo == InitGeo /\ [][GeoStep]_vars

----------------------------------------------------------------------------
(* Properties of the hard disk *)

\* the step is an I/O instruction to the hard disk with pulse p
DhpPulse(p) == prog \in DhpProgs /\ last'.op = "iot" /\ last'.pulse = p

\* the unit a hard-disk instruction selects and the command it presents
\* (both as the opcode of the same instruction leaves them)
DhpSel == GET_UNIT(dhp_ussc')
DhpCmd == GET_CMD(dhp_fccy')

C4_DhpBusyDoneExclusive == ~(dhp_busy /\ dhp_done)

\* C4, as the code has it: busy and done are both set only while a done or
\* seek-done bit is set in the status register, and never right after a start
\* pulse (which clears done when it sets busy, and busy when it sets done).
C4_DhpBothOnlyWithDoneFlag ==
    (prog \in DhpProgs /\ dhp_busy /\ dhp_done)
        => /\ dhp_sta \cap STA_DFLGS # {}
           /\ ~(last.op = "iot" /\ last.pulse = iopS)

\* busy and done are both set: a special pulse was refused during a transfer
C4_DhpBusyAndDone ==
    /\ prog \in DhpProgs
    /\ dhp_busy /\ dhp_done
    /\ last.op = "iot" /\ last.pulse = iopP /\ last.ok = "fail"

\* C6: whenever the service routine of the hard disk runs for a read or a
\* write, it ends with busy clear and done set, whatever path it takes.
C6_DhpTransferEndsDone ==
    [][\A u \in DhpUnits :
          (prog \in DhpProgs /\ last'.op = "svc" /\ dhp_due[u] = 0
              /\ dhp_unit[u].FUNC # FCCY_SEEK)
          => (~dhp_busy' /\ dhp_done')]_vars

\* the service routine has just transferred a sector while busy was set
C6_DhpTransferServed ==
    /\ prog \in DhpProgs
    /\ last.op = "svc" /\ last.n >= 1
    /\ ~dhp_busy /\ dhp_done

\* the command comes with the pulse that does not start it
DhpWrongPulse(p) ==
    IF DhpCmd \in {FCCY_READ, FCCY_WRITE} THEN p = iopP ELSE p = iopS

\* the dispatcher accepts the selected unit and the address of the command
DhpAccepts ==
    /\ dhp_unit[DhpSel].att
    /\ dhp_due[DhpSel] = Idle
    /\ IF DhpCmd \in {FCCY_READ, FCCY_WRITE}
       THEN /\ ~(dhp_unit[DhpSel].wprt /\ DhpCmd = FCCY_WRITE)
            /\ GET_CYL(dhp_fccy') < CYL_6095
            /\ GET_SURF(dhp_ussc') < SURF_6095
            /\ GET_SECT(dhp_ussc') < SECT_6095
       ELSE DhpCmd = FCCY_RECAL \/ GET_CYL(dhp_fccy') < CYL_6095

\* a start or special pulse schedules a read or write only on start, after the
\* rotate wait, and a seek or recalibrate only on special; with the other
\* pulse nothing is scheduled
DhpPulseSelects(p) ==
    /\ dhp_due' # dhp_due
          => /\ ~DhpWrongPulse(p)
             /\ dhp_due[DhpSel] = Idle
             /\ \A v \in DhpUnits \ {DhpSel} : dhp_due'[v] = dhp_due[v]
             /\ DhpCmd \in {FCCY_READ, FCCY_WRITE} => dhp_due'[DhpSel] = dhp_rwait
    /\ DhpWrongPulse(p) => dhp_due' = dhp_due

\* C8, as written: a read or write is scheduled only on a start pulse and a
\* seek or recalibrate only on a special pulse; a command presented with the
\* other pulse schedules nothing and sets the error bit of the status.
C8_WrongPulseIsError ==
    [][\A p \in {iopS, iopP} :
          DhpPulse(p) =>
              /\ DhpPulseSelects(p)
              /\ DhpWrongPulse(p) => STA_ERR \in dhp_sta']_vars

\* C8, as the code has it: a read or write is scheduled only on a start pulse
\* and a seek or recalibrate only on a special pulse; a command presented with
\* the other pulse schedules nothing and ends at once with done set, and the
\* error bit is set only if the unit or the address is refused as well.
C8_WrongPulseEndsAtOnce ==
    [][\A p \in {iopS, iopP} :
          DhpPulse(p) =>
              /\ DhpPulseSelects(p)
              /\ DhpWrongPulse(p) =>
                    /\ last'.ok = "fail"
                    /\ dhp_done'
                    /\ dhp_busy' = (dhp_busy /\ p # iopS)
                    /\ (STA_ERR \in dhp_sta') <=> ~DhpAccepts]_vars

\* a read came with the special pulse and ended with done, without error bit
C8_ReadOnSpecial ==
    /\ prog \in DhpProgs
    /\ last.op = "iot" /\ last.pulse = iopP /\ last.ok = "fail"
    /\ GET_CMD(dhp_fccy) = FCCY_READ
    /\ dhp_due[GET_UNIT(dhp_ussc)] = Idle
    /\ dhp_done /\ STA_ERR \notin dhp_sta

C10_SeekDelay ==
    [][(DhpPulse(iopP) /\ last'.ok = "ok")
          => LET d == Abs(dhp_unit'[DhpSel].CYL - dhp_unit[DhpSel].CYL)
             IN  /\ dhp_due[DhpSel] = Idle
                 /\ dhp_due'[DhpSel] = dhp_swait * (IF d = 0 THEN 1 ELSE d)
                 /\ dhp_due'[DhpSel] >= dhp_swait]_vars

\* a seek to the cylinder the unit is on was accepted: it waits one seek wait
\* (the program's cylinders are at least two apart)
C10_SeekInPlace ==
    /\ prog \in DhpProgs
    /\ last.op = "iot" /\ last.pulse = iopP /\ last.ok = "ok"
    /\ dhp_due[GET_UNIT(dhp_ussc)] = dhp_swait

----------------------------------------------------------------------------
(* Properties of the floppy *)

\* the step is an I/O instruction to the floppy with pulse p
DktPulse(p) == prog \in DktProgs /\ last'.op = "iot" /\ last'.pulse = p

\* C5: busy and done are never both set on the floppy.
C5_DktBusyDoneExclusive == ~(dkt_busy /\ dkt_done)

\* a start pulse arrived with done set: it set busy, and done is clear
C5_DktStartAfterDone ==
    /\ prog \in DktProgs
    /\ last.op = "iot" /\ last.pulse = iopS /\ last.ok # "active"
    /\ dkt_busy /\ ~dkt_done
    /\ STA_6038_HEADON \in dkt_sta

\* a start pulse has just left busy set
C7_StartLeftBusy ==
    prog \in DktProgs /\ last.op = "iot" /\ last.pulse = iopS /\ dkt_busy

\* C7: while the timer keeps ticking and no clear pulse or reset intervenes,
\* every start pulse that leaves busy set, whatever its opcode or command, is
\* eventually followed by a state with busy clear and done set.
C7_StartEventuallyDone == [](C7_StartLeftBusy => <>(~dkt_busy /\ dkt_done))

----------------------------------------------------------------------------
(* Properties of both controllers *)

\* C2: a unit has at most one scheduled event: no dispatcher and no timer
\* service ever schedules an event for a unit that already has one queued.
C2_NoSecondEvent == ~dhp_twice /\ ~dkt_twice

\* the dispatcher was asked to start a command on an attached unit that has
\* an event queued, and refused: the event is still the only one
C2_RefusedWhileQueued ==
    /\ prog \in DhpProgs
    /\ last.op = "iot" /\ last.pulse \in {iopS, iopP} /\ last.ok = "fail"
    /\ dhp_unit[GET_UNIT(dhp_ussc)].att
    /\ dhp_due[GET_UNIT(dhp_ussc)] # Idle

\* the unit the floppy has selected before and after the instruction
DktOld == SC_6038_GET_UNIT(dkt_6038_sc)
DktNew == SC_6038_GET_UNIT(dkt_6038_sc')

\* hard disk: a start or special pulse whose unit is unattached or has an
\* event queued sets the error bit and changes no event
DhpRefusedStart ==
    \A p \in {iopS, iopP} :
        (DhpPulse(p) /\ (~dhp_unit[DhpSel].att \/ dhp_due[DhpSel] # Idle))
        => (STA_ERR \in dhp_sta' /\ dhp_due' = dhp_due)

\* C3, as written: a start pulse (on the hard disk, a special pulse too)
\* addressed to a unit that is unattached or already has a scheduled event
\* sets the error bit of the status and schedules nothing; a queued event
\* keeps its fire time.
C3_RefusedStartSetsError ==
    [][/\ DhpRefusedStart
       /\ (DktPulse(iopS) /\ (~dkt_unit[DktNew].att \/ dkt_due[DktNew] # Idle))
          => (STA_6038_ERROR \in dkt_sta' /\ dkt_due' = dkt_due)]_vars

\* C3, as the code has it: on the hard disk as written; on the floppy a start
\* pulse sets the error bit and schedules nothing when the selected unit has
\* an event queued, or when it comes with the specify command (DOA) for a
\* unit that is unattached or has an event queued; a start pulse with another
\* opcode schedules nothing either, and on an unattached unit without an
\* event it sets no error bit.  A queued event keeps its fire time.
C3_RefusedStart ==
    [][/\ DhpRefusedStart
       /\ DktPulse(iopS) =>
             /\ dkt_due[DktOld] # Idle
                   => (STA_6038_ERROR \in dkt_sta' /\ dkt_due' = dkt_due)
             /\ (last'.doa /\ (~dkt_unit[DktNew].att \/ dkt_due[DktNew] # Idle))
                   => (STA_6038_ERROR \in dkt_sta' /\ dkt_due' = dkt_due)
             /\ ~last'.doa
                   => /\ dkt_due' = dkt_due
                      /\ dkt_due[DktOld] = Idle => STA_6038_ERROR \notin dkt_sta']_vars

\* a start pulse found the event of the selected floppy unit queued
C3_StartWhileQueued ==
    /\ prog \in DktProgs
    /\ last.op = "iot" /\ last.pulse = iopS /\ last.ok = "active"
    /\ dkt_due[SC_6038_GET_UNIT(dkt_6038_sc)] # Idle
    /\ STA_6038_ERROR \in dkt_sta

----------------------------------------------------------------------------
(* Properties of the hard disk: service, geometry, write protection, reset *)

\* the step is the service routine of hard-disk unit u
DhpServes(u) ==
    /\ prog \in DhpProgs
    /\ last'.op = "svc"
    /\ dhp_due[u] = 0 /\ dhp_due'[u] = Idle

\* C11: whenever the queued event of a seek fires, the unit's seek-done bit is
\* set, its seeking bit is cleared and the done flag is set, whether or not
\* the unit is still attached and its cylinder is in range.
C11_SeekEventCompletes ==
    [][\A u \in DhpUnits :
          (DhpServes(u) /\ dhp_unit[u].FUNC = FCCY_SEEK)
          => /\ StaSkdn(u) \in dhp_sta'
             /\ StaSeek(u) \notin dhp_sta'
             /\ dhp_done']_vars

\* the event of a seek has just fired on a unit detached while it was queued
C11_SeekServedDetached ==
    /\ prog \in DhpProgs
    /\ last.op = "svc"
    /\ dhp_unit[0].FUNC = FCCY_SEEK /\ ~dhp_unit[0].att
    /\ StaSkdn(0) \in dhp_sta /\ StaSeek(0) \notin dhp_sta /\ dhp_done
    /\ STA_ERR \in dhp_sta


\* the cylinder the command register asks for: 0 for a recalibrate
DhpCylAsked == IF DhpCmd = FCCY_RECAL THEN 0 ELSE GET_CYL(dhp_fccy')

\* C12: a seek or recalibrate dispatched without error leaves the unit on the
\* cylinder asked for (0 for a recalibrate), which is less than the cylinder
\* count; the unit stays on it while the event is queued, and a service
\* without error leaves it there.
C12_SeekReachesCylinder ==
    [][\A u \in DhpUnits :
          /\ (DhpPulse(iopP) /\ last'.ok = "ok" /\ DhpSel = u
                 /\ DhpCmd \in {FCCY_SEEK, FCCY_RECAL})
             => /\ dhp_unit'[u].CYL = DhpCylAsked
                /\ dhp_unit'[u].CYL < CYL_6095
                /\ dhp_due'[u] # Idle
          /\ (prog \in DhpProgs /\ dhp_due[u] # Idle
                 /\ dhp_unit[u].FUNC = FCCY_SEEK /\ last'.op # "reset")
             => /\ dhp_unit'[u].CYL = dhp_unit[u].CYL
                /\ dhp_unit'[u].CYL < CYL_6095]_vars

\* a seek to a cylinder other than 0 has been served without error
C12_SeekServed ==
    /\ prog \in DhpProgs
    /\ last.op = "svc"
    /\ dhp_unit[0].FUNC = FCCY_SEEK /\ dhp_unit[0].CYL = 2
    /\ GET_CYL(dhp_fccy) = 2 /\ GET_CMD(dhp_fccy) = FCCY_SEEK
    /\ STA_ERR \notin dhp_sta /\ StaSkdn(0) \in dhp_sta

\* the sectors a transfer asks for (the count field counts up to 16) and the
\* sectors left on the surface from the sector it starts at
DhpWanted == 16 - GET_COUNT(dhp_ussc)
DhpLeft == SECT_6095 - GET_SECT(dhp_ussc)

\* the step serves a read or write of unit u that starts on a valid sector of
\* the last surface and asks for more sectors than the surface has left
DhpRunsPastEnd(u) ==
    /\ DhpServes(u)
    /\ dhp_unit[u].FUNC \in {FCCY_READ, FCCY_WRITE}
    /\ dhp_unit[u].att
    /\ ~(dhp_unit[u].wprt /\ dhp_unit[u].FUNC = FCCY_WRITE)
    /\ dhp_unit[u].CYL < CYL_6095
    /\ GET_SURF(dhp_ussc) = SURF_6095 - 1
    /\ GET_SECT(dhp_ussc) < SECT_6095
    /\ DhpWanted > DhpLeft

\* C14: a transfer that runs past the last sector of the last surface moves
\* no sector beyond it; when it gets that far (the backing file did not fail
\* before) it ends with the cross-cylinder bit, the error bit and done set,
\* the surface field at the overflowed value (not wrapped to 0), the sector
\* field 0, the count not advanced for the refused sector, and the unit's
\* cylinder unchanged.
C14_OverflowStopsTransfer ==
    [][\A u \in DhpUnits :
          DhpRunsPastEnd(u) =>
             /\ last'.n <= DhpLeft
             /\ dhp_unit'[u].CYL = dhp_unit[u].CYL
             /\ last'.n = DhpLeft =>
                   /\ {STA_XCY, STA_ERR, STA_DONE} \subseteq dhp_sta'
                   /\ dhp_done' /\ ~dhp_busy'
                   /\ GET_SURF(dhp_ussc') = SURF_6095
                   /\ GET_SECT(dhp_ussc') = 0
                   /\ GET_COUNT(dhp_ussc') = (GET_COUNT(dhp_ussc) + DhpLeft) % 16
                   /\ dhp_ma' = Low(dhp_ma + DhpLeft * DHP_NUMWD, AMASK)]_vars

\* a two-sector transfer from the last sector of the last surface has ended
\* after one sector, on the surface after the last
C14_StoppedAtOverflow ==
    /\ prog \in DhpProgs
    /\ last.op = "svc" /\ last.n = 1
    /\ STA_XCY \in dhp_sta /\ STA_ERR \in dhp_sta
    /\ GET_SURF(dhp_ussc) = SURF_6095 /\ GET_SECT(dhp_ussc) = 0
    /\ GET_COUNT(dhp_ussc) = 15
    /\ dhp_unit[0].CYL = 0

\* C15: a write to a write-protected unit fails with the error and done bits
\* set, at dispatch (the unit attached and idle, either pulse) as at service
\* (the lock set while the write was queued); nothing is scheduled for it,
\* and the backing file is not written.
C15_ProtectedWriteFails ==
    [][\A u \in DhpUnits :
          /\ ((DhpPulse(iopS) \/ DhpPulse(iopP))
                 /\ DhpSel = u /\ DhpCmd = FCCY_WRITE
                 /\ dhp_unit[u].att /\ dhp_unit[u].wprt /\ dhp_due[u] = Idle)
             => /\ {STA_ERR, STA_DONE} \subseteq dhp_sta'
                /\ dhp_done'
                /\ last'.ok = "fail"
                /\ dhp_due'[u] = Idle
                /\ last'.w = 0
          /\ (DhpServes(u) /\ dhp_unit[u].FUNC = FCCY_WRITE /\ dhp_unit[u].wprt)
             => /\ {STA_ERR, STA_DONE} \subseteq dhp_sta'
                /\ dhp_done' /\ ~dhp_busy'
                /\ last'.n = 0 /\ last'.w = 0
                /\ dhp_ma' = dhp_ma /\ dhp_ussc' = dhp_ussc]_vars

\* the event of a write has fired on an attached unit that was write-locked
\* while the write was queued
C15_LockedWriteServed ==
    /\ prog \in DhpProgs
    /\ last.op = "svc" /\ last.n = 0 /\ last.w = 0
    /\ dhp_unit[0].FUNC = FCCY_WRITE
    /\ dhp_unit[0].att /\ dhp_unit[0].wprt
    /\ STA_ERR \in dhp_sta /\ dhp_done


\* C17: after a reset the command / cylinder, unit / sector / count, memory
\* address and status registers and the map selector are zero, busy and done
\* are clear, every unit's current cylinder and pending function are zero,
\* and no unit the unit field can select has an event scheduled.
C17_DhpResetClears ==
    (prog \in DhpProgs /\ last.op = "reset")
    => /\ dhp_fccy = 0 /\ dhp_ussc = 0 /\ dhp_ma = 0 /\ dhp_sta = {}
       /\ dhp_map = 0
       /\ ~dhp_busy /\ ~dhp_done
       /\ \A u \in DhpUnits :
             /\ dhp_unit[u].CYL = 0 /\ dhp_unit[u].FUNC = 0
             /\ dhp_due[u] = Idle

\* a reset has run with the unit attached and write-locked, that is, after
\* the operator and the program have been at work
C17_DhpResetAfterUse ==
    /\ prog \in DhpProgs
    /\ last.op = "reset"
    /\ dhp_unit[0].att /\ dhp_unit[0].wprt
    /\ dhp_due[0] = Idle /\ dhp_fccy = 0


----------------------------------------------------------------------------
(* Properties of the floppy: geometry, write protection, reset, the timer *)

\* C13: after any sequence of completed step-in and step-out commands the
\* unit's current cylinder is less than the cylinder count of the floppy.
C13_CylinderBelowCount == \A u \in DktUnits : dkt_unit[u].CYL < CYL_6038


\* the step is the service routine of floppy unit u
DktServes(u) ==
    /\ prog \in DktProgs
    /\ last'.op = "svc"
    /\ dkt_due[u] = 0 /\ dkt_due'[u] = Idle

\* a format given to an attached, idle, write-protected unit ends with the
\* write-fault bit set
C16_ProtectedFormatFaults ==
    \A u \in DktUnits :
       (DktPulse(iopS) /\ last'.doa /\ last'.ok # "active" /\ DktNew = u
           /\ SC_6038_GET_CMD(dkt_6038_sc') \in {SC_6038_FORMAT0, SC_6038_FORMATNEXT}
           /\ dkt_unit[u].att /\ dkt_unit[u].wprt /\ dkt_due[u] = Idle)
       => (STA_6038_WRITEFAULT \in dkt_sta' /\ last'.ok = "fail")

\* the service of a write-next on a write-protected unit sets the write-fault
\* bit and does not write the backing file
C16_ProtectedWriteKeepsFile ==
    \A u \in DktUnits :
       (DktServes(u) /\ dkt_unit[u].FUNC = SC_6038_WRITENEXT /\ dkt_unit[u].wprt)
       => (STA_6038_WRITEFAULT \in dkt_sta' /\ last'.w = 0)

\* C16: a write-next or a format to a write-protected floppy unit fails with
\* the write-fault bit set and never writes the backing file.
C16_ProtectedWriteFaults ==
    [][C16_ProtectedFormatFaults /\ C16_ProtectedWriteKeepsFile]_vars


\* C18: after a reset of the floppy the specify-command, memory-address and
\* current-address registers, the ROM index and the status are zero, busy and
\* done are clear, neither drive has an event scheduled, and the rotation
\* timer has exactly one event pending, due one sector interval later.
C18_DktResetClears ==
    (prog \in DktProgs /\ last.op = "reset")
    => /\ dkt_6038_sc = 0 /\ dkt_6038_ma = 0 /\ dkt_6038_ca = 0
       /\ dkt_6038_progload_romaddr = 0 /\ dkt_sta = {}
       /\ ~dkt_busy /\ ~dkt_done
       /\ \A u \in DktUnits : dkt_due[u] = Idle
       /\ dkt_due[DKT_TIMER] = DKT_SIM_SECTORTIME
       /\ ~dkt_twice

\* a reset has run with a disk mounted, that is, after the operator and the
\* program have been at work
C18_DktResetAfterUse ==
    /\ prog \in DktProgs
    /\ last.op = "reset"
    /\ dkt_unit[0].att
    /\ dkt_due[DKT_TIMER] = DKT_SIM_SECTORTIME
    /\ dkt_6038_sc = 0


DktAhead ==
    (SC_6038_GET_SECT(dkt_6038_sc) + 8
        - dkt_unit[SC_6038_GET_UNIT(dkt_6038_sc)].SECT) % 8

\* a read-next has just been accepted with the sector asked for 1 to 7
\* sectors ahead of the head
C20_ReadIssuedAhead ==
    /\ prog \in DktProgs
    /\ last.op = "iot" /\ last.pulse = iopS /\ last.doa /\ last.ok = "ok"
    /\ SC_6038_GET_CMD(dkt_6038_sc) = SC_6038_READNEXT
    /\ DktAhead \in 1..7

\* C20: a read-next issued when the sector asked for is K sectors ahead of
\* the head, K from 1 to 7, comes to its service and ends there without a
\* sector error (the backing file permitting).
C20_ReadAheadSucceeds ==
    [](C20_ReadIssuedAhead
          => <>(last.op = "svc" /\ STA_6038_SECTORERR \notin dkt_sta))


----------------------------------------------------------------------------
(* Properties of the floppy: armed commands, head steps, the rotation *)

\* the commands the dispatcher leaves to the rotation timer
DktArmed == {SC_6038_READPREAMB, SC_6038_READNEXT, SC_6038_WRITENEXT}

\* C21: a start with read preamble, read next or write next for an attached
\* unit without an event leaves busy set and schedules nothing; an event for
\* a unit whose function is one of the three is scheduled by a rotation tick
\* only, and only for the unit selected, with busy set, when the tick comes.
C21_ArmedWaitsForTick ==
    [][/\ \A AC \in DktAC(ioDOA) :
             (DktIot(iopS, ioDOA, AC)
                 /\ SC_6038_GET_CMD(AC) \in DktArmed
                 /\ dkt_unit[SC_6038_GET_UNIT(AC)].att
                 /\ dkt_due[SC_6038_GET_UNIT(AC)] = Idle)
             => (dkt_busy' /\ dkt_due' = dkt_due)
       /\ \A u \in DktUnits :
             (prog \in DktProgs /\ dkt_due[u] = Idle /\ dkt_due'[u] # Idle
                 /\ dkt_unit'[u].FUNC \in DktArmed)
             => /\ last'.op = "tick"
                /\ SC_6038_GET_UNIT(dkt_6038_sc) = u
                /\ dkt_busy]_vars

\* a tick has passed over drive 0, armed with a read and no longer selected,
\* and has scheduled nothing for it
C21_TickPassedArmedUnit ==
    /\ prog \in DktProgs
    /\ last.op = "tick"
    /\ dkt_busy
    /\ SC_6038_GET_UNIT(dkt_6038_sc) = 1
    /\ dkt_unit[0].att /\ dkt_unit[0].FUNC = SC_6038_READNEXT
    /\ dkt_due[0] = Idle


\* C22: the service of a step out leaves the unit one cylinder lower, or on
\* cylinder 0 if it was there; the service of a step in leaves it one
\* cylinder higher; and no unit's cylinder is ever negative.
C22_StepMovesOneCylinder ==
    [][/\ \A u \in DktUnits :
             DktServes(u) =>
                /\ dkt_unit[u].FUNC = SC_6038_STEPOUT
                      => dkt_unit'[u].CYL = IF dkt_unit[u].CYL = 0 THEN 0
                                            ELSE dkt_unit[u].CYL - 1
                /\ dkt_unit[u].FUNC = SC_6038_STEPIN
                      => dkt_unit'[u].CYL = dkt_unit[u].CYL + 1
       /\ \A u \in DktUnits : dkt_unit'[u].CYL >= 0]_vars

\* a step out has been served and has left the unit on cylinder 0, the
\* track-0 bit set
C22_StepOutAtZero ==
    /\ prog \in DktProgs
    /\ last.op = "svc"
    /\ dkt_unit[0].FUNC = SC_6038_STEPOUT
    /\ dkt_unit[0].CYL = 0
    /\ dkt_unit[1].CYL = 0
    /\ STA_6038_TRACK0 \in dkt_sta


----------------------------------------------------------------------------
(* Properties of the hard disk: the status read, errors, the clear pulse *)

\* the step is a status read (DIA) of the hard disk, with any pulse
DhpReadsStatus == \E pulse \in Pulses : DhpIot(pulse, ioDIA, 0)

\* the word a status read returns from this state, and the unit selected
DhpStatusRead == dhp_rval(DhpState, ioDIA)
DhpSelUnit == dhp_unit[GET_UNIT(dhp_ussc)]

\* C23, as written: the word returned by a status read has the drive-ready
\* bit set exactly when the selected unit is attached, and the bad-cylinder
\* bit set exactly when the selected unit's cylinder is not less than the
\* cylinder count, whatever the status register held before.
C23_StatusReadIsLive ==
    [][DhpReadsStatus =>
          /\ Bit(DhpStatusRead, STA_DRDY) <=> DhpSelUnit.att
          /\ Bit(DhpStatusRead, STA_CYL) <=> (DhpSelUnit.CYL >= CYL_6095)]_vars

\* C23, as the code has it: the drive-ready bit of the word returned is set
\* exactly when the selected unit is attached, whatever the register held;
\* the bad-cylinder bit is set whenever the selected unit's cylinder is not
\* less than the cylinder count, and otherwise exactly when the status
\* register held it already (the read keeps the error flags).
C23_StatusReadKeepsErrors ==
    [][DhpReadsStatus =>
          /\ Bit(DhpStatusRead, STA_DRDY) <=> DhpSelUnit.att
          /\ Bit(DhpStatusRead, STA_CYL)
                <=> (DhpSelUnit.CYL >= CYL_6095 \/ STA_CYL \in dhp_sta)]_vars

\* the status was read with unit 1 selected, never attached and on cylinder
\* 0, after a seek of unit 0 to an invalid cylinder: bad cylinder is reported
C23_StaleBadCylinder ==
    /\ prog \in DhpProgs
    /\ last.op = "iot" /\ last.pulse = iopN
    /\ GET_UNIT(dhp_ussc) = 1
    /\ dhp_unit[1].CYL = 0 /\ ~dhp_unit[1].att
    /\ dhp_unit[0].CYL = CYL_6095
    /\ {STA_CYL, STA_ERR} \subseteq dhp_sta
    /\ STA_DRDY \notin dhp_sta


\* what the service routine of unit u makes of this state when the backing
\* file fails in pass failAt of the transfer loop (0: never)
DhpSvcResult(u, failAt) == dhp_svc([DhpState EXCEPT !.due[u] = Idle], u, failAt)

\* the step is the service of a read or write of unit u in which the backing
\* file fails in pass failAt, a pass the transfer gets to
DhpFileFails(u, failAt) ==
    /\ DhpSvc(u, failAt)
    /\ dhp_unit[u].FUNC \in {FCCY_READ, FCCY_WRITE}
    /\ DhpSvcResult(u, 0).n >= failAt

\* C24: when the backing file fails during a transfer, the transfer stops at
\* that sector and the service routine returns SCPE_IOERR; the controller
\* ends with busy clear and done set and the unit without an event, so that
\* a later start is accepted.
C24_FileErrorReported ==
    [][\A u \in DhpUnits, failAt \in 1..MaxFail :
          DhpFileFails(u, failAt) =>
             /\ last'.n = failAt - 1
             /\ DhpSvcResult(u, failAt).rval = SCPE_IOERR
             /\ ~dhp_busy' /\ dhp_done'
             /\ dhp_due'[u] = Idle]_vars


\* the step is the service of a read of unit u that moves the sectors asked
\* for and begins with the unit, the cylinder and the registers that the
\* latest write began with, a write that moved as many
DhpReadsBack(u) ==
    /\ DhpServes(u)
    /\ dhp_unit[u].FUNC = FCCY_READ
    /\ last'.n = DhpWanted
    /\ dhp_wlog.n = DhpWanted
    /\ dhp_wlog.u = u /\ dhp_wlog.cyl = dhp_unit[u].CYL
    /\ dhp_wlog.ma = dhp_ma /\ dhp_wlog.ussc = dhp_ussc

\* the memory addresses of the sectors asked for, from the memory address on
DhpBuffer ==
    {a \in DOMAIN M :
        (a + AMASK + 1 - dhp_ma) % (AMASK + 1) < DhpWanted * DHP_NUMWD}

\* C25: a read that begins where the latest write began and moves as many
\* sectors, 1 to 16 within the cylinder, stores in memory the words that the
\* write took from it, whatever the program has stored there since, and
\* leaves the memory outside the sectors' addresses as it is.
C25_WriteThenReadRestores ==
    [][\A u \in DhpUnits :
          DhpReadsBack(u) =>
             /\ \A a \in DhpBuffer : M'[a] = dhp_wlog.words[a]
             /\ \A a \in DOMAIN M \ DhpBuffer : M'[a] = M[a]
             /\ dhp_file' = dhp_file]_vars

\* sixteen sectors, written from the buffer filled with the pattern, have
\* been read back into the buffer, which holds the pattern again
C25_SixteenReadBack ==
    /\ prog = "dhp.data"
    /\ last.op = "svc" /\ last.n = 16 /\ last.w = 0
    /\ dhp_wlog.n = 16
    /\ \A a \in DOMAIN M : M[a] = DhpPattern(a) /\ dhp_wlog.words[a] = M[a]
    /\ Cardinality(DOMAIN M) = 32

\* C28: after an instruction with the clear pulse, whatever its opcode and
\* the state before it, busy and done are clear and the status register has
\* no done bit (operation done, the four seek-done bits) and no error bit.
C28_ClearPulseClearsFlags ==
    (prog \in DhpProgs /\ last.op = "iot" /\ last.pulse = iopC) =>
       /\ ~dhp_busy /\ ~dhp_done
       /\ dhp_sta \cap (STA_DFLGS \cup STA_EFLGS) = {}

\* a clear pulse has come while the seek of the selected unit was queued:
\* the seek stays queued and its seeking bit set, and the flags are clear
C28_ClearDuringSeek ==
    /\ prog \in DhpProgs
    /\ last.op = "iot" /\ last.pulse = iopC
    /\ dhp_unit[GET_UNIT(dhp_ussc)].FUNC = FCCY_SEEK
    /\ dhp_due[GET_UNIT(dhp_ussc)] # Idle
    /\ StaSeek(GET_UNIT(dhp_ussc)) \in dhp_sta
    /\ ~dhp_busy /\ ~dhp_done

----------------------------------------------------------------------------
(* Properties of both controllers: the block address, the error bits *)

\* the blocks of the drive type
GeoBlocks == drv_tab.cyl * drv_tab.surf * drv_tab.sect

\* C26: for the hard disk (408 x 4 x 12) and the floppy (77 x 1 x 8), the
\* linear block address of an in-range (cylinder, surface, sector) is the
\* number of in-range triples before it in the order cylinder, surface,
\* sector: it lies in 0 .. cylinders x surfaces x sectors - 1, grows from each
\* triple to the next, and reaches the last block at the last triple, so
\* the triples map one-to-one onto that range.
C26_BlockAddressIsRank ==
    prog \in GeoProgs =>
       /\ last.sa = last.n
       /\ last.sa \in 0..(GeoBlocks - 1)
       /\ (/\ last.cy = drv_tab.cyl - 1 /\ last.sf = drv_tab.surf - 1
           /\ last.sc = drv_tab.sect - 1) => last.sa = GeoBlocks - 1

\* the last triple of the hard disk has been reached, at block 19583
C26_LastHardDiskBlock ==
    /\ prog = "dhp.geo"
    /\ last.cy = CYL_6095 - 1 /\ last.sf = SURF_6095 - 1 /\ last.sc = SECT_6095 - 1
    /\ last.sa = 19583

\* C27: in every state between the instructions and the service routines,
\* a specific error bit in the status register of either controller (hard
\* disk: data late, crc, unsafe, cross cylinder, bad cylinder; floppy:
\* illegal, sector error, checkword, data late, write fault) has the
\* aggregate error bit with it.
C27_SpecificErrorHasAggregate ==
    /\ dhp_sta \cap {STA_DLT, STA_CRC, STA_UNS, STA_XCY, STA_CYL} # {}
          => STA_ERR \in dhp_sta
    /\ dkt_sta \cap {STA_6038_ILLEGAL, STA_6038_SECTORERR,
                     STA_6038_CHECKWORDERR, STA_6038_DATALATE,
                     STA_6038_WRITEFAULT} # {}
          => STA_6038_ERROR \in dkt_sta

\* the floppy's service routine has found the wrong sector under the head,
\* a place where the code sets the specific bit alone
C27_SectorErrorServed ==
    /\ prog \in DktProgs
    /\ last.op = "svc"
    /\ STA_6038_SECTORERR \in dkt_sta
    /\ STA_6038_ILLEGAL \notin dkt_sta

----------------------------------------------------------------------------
(* Properties of the floppy: the rotation and the service latency *)

\* C29: every rotation tick takes the sector counter of every drive, selected
\* or not, attached or not, busy or not, to (old value + 1) mod 8, and the
\* counters of all drives are equal in every reachable state.
C29_DrivesTurnTogether ==
    /\ [](\A u, v \in DktUnits : dkt_unit[u].SECT = dkt_unit[v].SECT)
    /\ [][(prog \in DktProgs /\ last'.op = "tick") =>
            \A u \in DktUnits :
               dkt_unit'[u].SECT = (dkt_unit[u].SECT + 1) % SECT_6038]_vars

\* a tick has taken the drives from sector 7 to sector 0, one of them not
\* attached and not selected, with the controller busy
C29_TurnedPastLastSector ==
    /\ prog \in DktProgs
    /\ last.op = "tick"
    /\ \A u \in DktUnits : dkt_unit[u].SECT = 0
    /\ \E u \in DktUnits : ~dkt_unit[u].att /\ u # SC_6038_GET_UNIT(dkt_6038_sc)
    /\ dkt_busy

\* the tick gives unit u, which had none, an event
DktTickSchedules(u) ==
    /\ prog \in DktProgs
    /\ last'.op = "tick"
    /\ dkt_due[u] = Idle /\ dkt_due'[u] # Idle

\* C30: the event a rotation tick gives to a unit is due 5 time units after
\* the tick for read preamble and 495 for read next and write next; while
\* the event of an armed command is queued it is due before the next tick,
\* and the unit's sector counter stays as the tick left it until the service
\* routine has run.
C30_ServiceBeforeNextTick ==
    /\ [][\A u \in DktUnits :
            DktTickSchedules(u) =>
               /\ dkt_unit'[u].FUNC = SC_6038_READPREAMB
                     => dkt_due'[u] = DKT_SIM_ADDRTIME
               /\ dkt_unit'[u].FUNC \in {SC_6038_READNEXT, SC_6038_WRITENEXT}
                     => dkt_due'[u] = DKT_SIM_ADDRTIME + DKT_SIM_DATATIME
               /\ dkt_due'[u] < DKT_SIM_SECTORTIME
               /\ dkt_due'[DKT_TIMER] = DKT_SIM_SECTORTIME]_vars
    /\ [](\A u \in DktUnits :
            (dkt_due[u] # Idle /\ dkt_unit[u].FUNC \in DktArmed)
               => dkt_due[DKT_TIMER] # Idle /\ dkt_due[u] < dkt_due[DKT_TIMER])
    /\ [][\A u \in DktUnits :
            (dkt_due[u] # Idle /\ dkt_unit[u].FUNC \in DktArmed)
               => \/ dkt_unit'[u].SECT = dkt_unit[u].SECT
                  \/ last'.op = "reset"]_vars

\* a read or write has been served 495 time units after the tick that
\* scheduled it, 5 before the next tick
C30_ServedBeforeTick ==
    /\ prog \in DktProgs
    /\ last.op = "svc"
    /\ \E u \in DktUnits :
          dkt_unit[u].FUNC \in {SC_6038_READNEXT, SC_6038_WRITENEXT}
    /\ dkt_due[DKT_TIMER] = DKT_SIM_SECTORTIME - DKT_SIM_ADDRTIME - DKT_SIM_DATATIME

----------------------------------------------------------------------------
(* Properties of the floppy: sector errors, unknown commands, data *)

\* the step serves a read next or write next of unit u with another sector
\* under the head than the one the specify command register asks for
DktWrongSector(u) ==
    /\ DktServes(u)
    /\ dkt_unit[u].FUNC \in {SC_6038_READNEXT, SC_6038_WRITENEXT}
    /\ dkt_unit[u].SECT # SC_6038_GET_SECT(dkt_6038_sc)

\* C31: when the service of a read next or write next finds another sector
\* under the head than the one asked for, whatever the backing file would
\* report, it sets the sector-error bit and the error bit, moves no word
\* (memory, the backing file and the memory address register stay as they
\* are, fxwrite is not called) and ends with busy clear and done set.
C31_WrongSectorMovesNothing ==
    [][\A u \in DktUnits :
          DktWrongSector(u) =>
             /\ {STA_6038_SECTORERR, STA_6038_ERROR} \subseteq dkt_sta'
             /\ last'.n = 0 /\ last'.w = 0
             /\ M' = M /\ dkt_file' = dkt_file
             /\ dkt_6038_ma' = dkt_6038_ma
             /\ ~dkt_busy' /\ dkt_done']_vars

\* a write next has been served on the wrong sector: the error bits are set
\* and block 1 still holds what it held before the program ran
C31_WriteOnWrongSector ==
    /\ prog = "dkt.data"
    /\ last.op = "svc"
    /\ dkt_unit[0].FUNC = SC_6038_WRITENEXT
    /\ dkt_unit[0].SECT # SC_6038_GET_SECT(dkt_6038_sc)
    /\ STA_6038_SECTORERR \in dkt_sta
    /\ dkt_6038_ma = AMASK
    /\ \A c \in DOMAIN dkt_file[0] : dkt_file[0][c] = 1000 + c[2]

\* a start pulse has come with a specify command whose code is none of the
\* defined ones, for an attached unit without an event, and was accepted
DktUnknownStarted ==
    /\ prog \in DktProgs
    /\ last.op = "iot" /\ last.pulse = iopS /\ last.doa
    /\ SC_6038_GET_CMD(dkt_6038_sc) = DktBadCmd
    /\ dkt_unit[SC_6038_GET_UNIT(dkt_6038_sc)].att
    /\ dkt_unit[SC_6038_GET_UNIT(dkt_6038_sc)].FUNC = DktBadCmd
    /\ dkt_busy

\* C32: a start with a specify command whose code is none of the defined
\* commands, given to an attached idle unit, is followed by a state with the
\* illegal-command bit and the error bit set, busy clear and done set.
C32_UnknownCommandCompletes ==
    [](DktUnknownStarted =>
          <>(/\ {STA_6038_ILLEGAL, STA_6038_ERROR} \subseteq dkt_sta
             /\ ~dkt_busy /\ dkt_done))

----------------------------------------------------------------------------
(* Properties of the hard disk: the transfer loop *)

\* the step serves, without a file error, a read or write of attached unit u
\* that begins on a valid sector of a surface that is not the last and asks
\* for more sectors than that surface has left, but no more than the
\* cylinder has
DhpCrossesSurface(u) ==
    /\ DhpServes(u)
    /\ dhp_unit[u].FUNC \in {FCCY_READ, FCCY_WRITE}
    /\ GET_SECT(dhp_ussc) < SECT_6095
    /\ GET_SURF(dhp_ussc) < SURF_6095 - 1
    /\ DhpWanted > DhpLeft
    /\ GET_SURF(dhp_ussc) * SECT_6095 + GET_SECT(dhp_ussc) + DhpWanted
          <= SURF_6095 * SECT_6095
    /\ last'.n = DhpWanted

\* the last sector such a transfer moves, counted from sector 0 of surface 0
DhpLastMoved == GET_SURF(dhp_ussc) * SECT_6095 + GET_SECT(dhp_ussc) + DhpWanted - 1

\* C33: a transfer that passes the last sector of a surface that is not the
\* last goes on at sector 0 of the next surface of the same cylinder, and
\* the service raises no error bit (it adds the done bit to the status and
\* nothing else): the sector after the surface's last is moved between
\* that block and the next 256 words of memory, and the register ends on
\* the surface of the last sector moved, one sector after it.
C33_SectorRollsIntoSurface ==
    [][\A u \in DhpUnits :
          DhpCrossesSurface(u) =>
             /\ dhp_sta' = dhp_sta \cup {STA_DONE}
             /\ dhp_unit'[u].CYL = dhp_unit[u].CYL
             /\ GET_SURF(dhp_ussc') = DhpLastMoved \div SECT_6095
             /\ GET_SECT(dhp_ussc') = (DhpLastMoved % SECT_6095) + 1
             /\ \A dx \in DhpDx :
                   LET c == <<DHP_GET_SA(dhp_unit[u].CYL,
                                         GET_SURF(dhp_ussc) + 1, 0), dx>>
                       a == Low(dhp_ma + DhpLeft * DHP_NUMWD + dx, AMASK)
                   IN  IF dhp_unit[u].FUNC = FCCY_WRITE
                       THEN dhp_file'[u][c] = M[a]
                       ELSE M'[a] = dhp_file[u][c]]_vars

\* two sectors have been written from sector 11 of surface 0 and the last
\* page of memory: the register shows surface 1, sector 1, and sector 0 of
\* surface 1 holds the pattern of the page after it (address 0)
C33_WroteAcrossSurfaces ==
    /\ prog = "dhp.data"
    /\ last.op = "svc" /\ last.n = 2 /\ last.w = 2
    /\ dhp_wlog.ma = AMASK + 1 - DHP_NUMWD
    /\ GET_SURF(dhp_wlog.ussc) = 0 /\ GET_SECT(dhp_wlog.ussc) = SECT_6095 - 1
    /\ GET_SURF(dhp_ussc) = 1 /\ GET_SECT(dhp_ussc) = 1
    /\ dhp_file[0][<<DHP_GET_SA(0, 1, 0), 0>>] = DhpPattern(0)
    /\ STA_ERR \notin dhp_sta

\* the step serves a read or write of unit u that nothing stops: the unit is
\* attached, and writable for a write, the cylinder, surface and sector are
\* valid, the sectors asked for end within the cylinder, and the file does
\* not fail
DhpRunsToCount(u) ==
    /\ DhpSvc(u, 0)
    /\ dhp_unit[u].FUNC \in {FCCY_READ, FCCY_WRITE}
    /\ dhp_unit[u].att
    /\ ~(dhp_unit[u].wprt /\ dhp_unit[u].FUNC = FCCY_WRITE)
    /\ dhp_unit[u].CYL < CYL_6095
    /\ GET_SURF(dhp_ussc) < SURF_6095
    /\ GET_SECT(dhp_ussc) < SECT_6095
    /\ GET_SURF(dhp_ussc) * SECT_6095 + GET_SECT(dhp_ussc) + DhpWanted
          <= SURF_6095 * SECT_6095

\* C34: a read or write served with the count field n and stopped by nothing
\* moves exactly 16 - n sectors (16 when n = 0) and leaves the count field 0
\* and the memory address 256 words further for each of them; and every read
\* or write service, stopped or not, moves at most 16 sectors and leaves the
\* count field advanced by one, modulo 16, for each sector it moved.
C34_CountSectorsMoved ==
    [][\A u \in DhpUnits :
          /\ DhpRunsToCount(u) =>
                /\ last'.n = 16 - GET_COUNT(dhp_ussc)
                /\ GET_COUNT(dhp_ussc) = 0 => last'.n = 16
                /\ GET_COUNT(dhp_ussc') = 0
                /\ dhp_ma' = Low(dhp_ma + last'.n * DHP_NUMWD, AMASK)
          /\ (DhpServes(u) /\ dhp_unit[u].FUNC \in {FCCY_READ, FCCY_WRITE}) =>
                /\ last'.n <= 16
                /\ GET_COUNT(dhp_ussc') = (GET_COUNT(dhp_ussc) + last'.n) % 16]_vars

\* a write dispatched with the count field 0 from sector 11 of surface 0 has
\* moved 16 sectors: the register shows surface 2, sector 3 and count 0
C34_SixteenSectorsMoved ==
    /\ prog = "dhp.data"
    /\ last.op = "svc" /\ last.n = 16 /\ last.w = 16
    /\ dhp_wlog.n = 16 /\ GET_COUNT(dhp_wlog.ussc) = 0
    /\ GET_SECT(dhp_wlog.ussc) = SECT_6095 - 1
    /\ GET_SURF(dhp_ussc) = 2 /\ GET_SECT(dhp_ussc) = 3
    /\ GET_COUNT(dhp_ussc) = 0


----------------------------------------------------------------------------
(* Properties of both controllers: a sector read into memory *)

\* what a read of block sa of the file, begun at memory address ma, does to
\* the memory Mb, leaving Ma: every word of the sector whose address is in
\* range is stored, a word whose address is out of range is dropped, and no
\* word out of range changes
SectorStored(Mb, Ma, ma, map, file, sa, numwd) ==
    /\ \A dx \in 0..(numwd - 1) :
          LET pa == MapAddr(map, Low(ma + dx, AMASK))
          IN  pa \in DOMAIN Mb =>
                 Ma[pa] = IF MEM_ADDR_OK(pa) THEN dhp_tbuf(file, sa, dx)
                          ELSE Mb[pa]
    /\ \A pa \in DOMAIN Mb : ~MEM_ADDR_OK(pa) => Ma[pa] = Mb[pa]

\* C35: a read that moves a sector (the hard disk's read of one sector, the
\* floppy's read next) stores every word whose mapped address is in range,
\* drops every word whose address is not, changes no memory word out of
\* range, and leaves the memory address 256 further modulo 32K, whether the
\* words were stored or dropped.
C35_ReadDropsOutOfRange ==
    [][/\ \A u \in DhpUnits :
             (/\ DhpServes(u)
              /\ dhp_unit[u].FUNC = FCCY_READ
              /\ last'.n = 1) =>
                /\ SectorStored(M, M', dhp_ma, dhp_map, dhp_file[u],
                                DHP_GET_SA(dhp_unit[u].CYL, GET_SURF(dhp_ussc),
                                           GET_SECT(dhp_ussc)),
                                DHP_NUMWD)
                /\ dhp_ma' = Low(dhp_ma + DHP_NUMWD, AMASK)
       /\ \A u \in DktUnits :
             (/\ DktServes(u)
              /\ dkt_unit[u].FUNC = SC_6038_READNEXT
              /\ last'.n = 1) =>
                /\ SectorStored(M, M', dkt_6038_ma, 0, dkt_file[u],
                                DKT_GET_SA(dkt_unit[u].CYL, 0, dkt_unit[u].SECT),
                                DKT_NUMWD)
                /\ dkt_6038_ma' = Low(dkt_6038_ma + DKT_NUMWD, AMASK)]_vars

\* the hard disk has read a sector to the page that ends one word past the
\* 16K: the last word in range holds the sector's word 254, the word out of
\* range still holds the program's pattern, and the address has moved on
C35_DhpDroppedLastWord ==
    /\ prog = "dhp.edge"
    /\ last.op = "svc" /\ last.n = 1
    /\ dhp_ma = MEMSIZE + 1
    /\ M[MEMSIZE - 1] = 1000 + DHP_NUMWD - 2
    /\ M[MEMSIZE] = DhpPattern(MEMSIZE)


----------------------------------------------------------------------------
(* Properties of the floppy: the clear pulse *)

\* C36: after a call with the clear pulse, whatever its opcode, busy and
\* done are clear, no error flag (error, data late, checkword, sector,
\* write fault, illegal, drive status) is set, the selected unit has no
\* event queued whatever function it holds, and the rotation timer is still
\* scheduled.
C36_ClearPulseAborts ==
    (/\ prog \in DktProgs
     /\ last.op = "iot" /\ last.pulse = iopC) =>
        /\ ~dkt_busy /\ ~dkt_done
        /\ dkt_sta \cap DKT_STA_EFLGS = {}
        /\ dkt_due[SC_6038_GET_UNIT(dkt_6038_sc)] = Idle
        /\ dkt_due[DKT_TIMER] # Idle

\* a clear pulse has cancelled the queued event of a write next and left
\* busy clear
C36_ClearCancelledWrite ==
    /\ prog \in DktProgs
    /\ last.op = "iot" /\ last.pulse = iopC /\ last.ok = "cancel"
    /\ dkt_unit[SC_6038_GET_UNIT(dkt_6038_sc)].FUNC = SC_6038_WRITENEXT
    /\ dkt_due[SC_6038_GET_UNIT(dkt_6038_sc)] = Idle
    /\ ~dkt_busy


----------------------------------------------------------------------------
(* Properties of the hard disk: the unit's current cylinder *)

\* the step is a special pulse that schedules a seek or a recalibrate of
\* unit u
DhpSeekScheduled(u) ==
    /\ DhpPulse(iopP)
    /\ u = DhpSel
    /\ DhpCmd \in {FCCY_SEEK, FCCY_RECAL}
    /\ dhp_due[u] = Idle /\ dhp_due'[u] # Idle

\* C37, as written: a unit's current cylinder changes only in a step that
\* accepts and schedules a seek or a recalibrate of that unit, or in a
\* reset; a command the dispatcher rejects (wrong pulse, bad cylinder, bad
\* surface, bad sector, write to a protected unit) leaves it unchanged.
C37_RejectKeepsCylinder ==
    [][\A u \in DhpUnits :
          dhp_unit'[u].CYL # dhp_unit[u].CYL
             => (DhpSeekScheduled(u) \/ last'.op = "reset")]_vars


----------------------------------------------------------------------------
(* Properties of the hard disk: the registers of a queued transfer *)

\* a read or write event is queued for unit u
DhpTransferQueued(u) ==
    /\ prog \in DhpProgs
    /\ dhp_due[u] # Idle
    /\ dhp_unit[u].FUNC \in {FCCY_READ, FCCY_WRITE}

\* C38, as written: while a read or write event is queued for a unit, busy
\* is set, and no step that leaves the event queued changes the unit /
\* surface / sector / count register or the memory address register, so
\* that the service finds them as they were at dispatch.
C38_QueuedTransferKeepsRegisters ==
    [][\A u \in DhpUnits :
          DhpTransferQueued(u) =>
             /\ dhp_busy
             /\ dhp_due'[u] # Idle =>
                   (dhp_ussc' = dhp_ussc /\ dhp_ma' = dhp_ma)]_vars


----------------------------------------------------------------------------
(* Properties of the floppy: what the rotation tick runs *)

\* the next tick will queue the stored command of the selected unit: busy is
\* set, the unit has no event, and its function is one of the three the
\* timer schedules
DktWaitsForTick ==
    /\ prog \in DktProgs
    /\ dkt_busy
    /\ dkt_due[SC_6038_GET_UNIT(dkt_6038_sc)] = Idle
    /\ dkt_unit[SC_6038_GET_UNIT(dkt_6038_sc)].FUNC \in DktArmed

\* C39, as written: the controller comes to wait for the tick with a read
\* preamble, read next or write next only by a start pulse with a specify
\* command (DOA) that names one of the three; a start pulse with another
\* opcode, a tick or a service after a completion or a clear never brings
\* the unit's earlier command back to run.
C39_OnlyStartedCommandRuns ==
    [][(~DktWaitsForTick /\ DktWaitsForTick')
          => /\ DktPulse(iopS) /\ last'.doa
             /\ SC_6038_GET_CMD(dkt_6038_sc') \in DktArmed]_vars


----------------------------------------------------------------------------
(* Properties of the floppy: the track-zero bit *)

\* C40, as written: in every state from the reset on, the track-zero bit of
\* the status is set exactly when the selected unit is on cylinder 0.
C40_TrackZeroFollowsCylinder ==
    prog \in DktProgs =>
       (STA_6038_TRACK0 \in dkt_sta
           <=> dkt_unit[SC_6038_GET_UNIT(dkt_6038_sc)].CYL = 0)


============================================================================
